---------------------------- MODULE Spec2Model ----------------------------
(***************************************************************************)
(* html-nesting-linter: the rule catalog (nestingRules.ts), the markup     *)
(* region extractor, the tag tokenizer and the stack-based nesting checker *)
(* (parser.js), modelled as a state machine over one analyzeDocument call. *)
(*                                                                         *)
(* A text is a sequence of one-character strings.  Offsets are the         *)
(* 0-based JavaScript indices of the source; At(s, i) reads s[i].          *)
(* The accented letters of the rule messages are written without their     *)
(* accents.                                                                *)
(***************************************************************************)
EXTENDS Integers, Sequences, FiniteSets, TLC

VARIABLES
  content,     \* analyzeDocument's argument: the document text
  languageId,  \* analyzeDocument's argument: the dialect
  pc,          \* position inside analyzeDocument
  regions,     \* const regions = extractMarkupRegions(content, languageId)
  ri,          \* index (0-based) of the region of the for..of loop
  lastIndex,   \* tagRegex.lastIndex inside tokenizeTags
  skipUntil,   \* tokenizeTags' skipUntil (NoSkip or a tag name)
  tokens,      \* tokenizeTags' tokens
  ti,          \* index (0-based) of the token of findNestingErrors' loop
  stack,       \* findNestingErrors' stack
  errors,      \* findNestingErrors' errors
  allErrors,   \* analyzeDocument's allErrors
  threw,       \* TRUE once a step raised a JavaScript exception
  calls,       \* number of analyzeDocument calls begun so far
  returned,    \* what the calls that returned were given and what they returned
  other,       \* the locals of a second call that is suspended, or NoCall
  activated,             \* "inactive", "active" once activate has run, "deactivated"
  config,                \* the htmlNestingLinter settings: enable and severity
  documents,             \* the editor's text documents, by uri
  activeTextEditor,      \* the uri of vscode.window.activeTextEditor's document
  diagnosticCollection,  \* the diagnostics published, by uri
  debounceTimer,         \* extension.js' debounceTimer
  validations            \* the validateDocument calls made so far

\* the arguments and locals of the analyzeDocument call that is running
locals == <<content, languageId, pc, regions, ri, lastIndex, skipUntil, tokens,
            ti, stack, errors, allErrors, threw>>

\* what lies outside the running call
\* the editor and the extension's module state
editor == <<activated, config, documents, activeTextEditor, diagnosticCollection,
            debounceTimer, validations>>

outer == <<calls, returned, other, editor>>

vars == <<locals, outer>>

-----------------------------------------------------------------------------
(* Characters and strings *)

Lower == {"a", "b", "c", "d", "e", "f", "g", "h", "i", "j", "k", "l", "m",
          "n", "o", "p", "q", "r", "s", "t", "u", "v", "w", "x", "y", "z"}

Upper == {"A", "B", "C", "D", "E", "F", "G", "H", "I", "J", "K", "L", "M",
          "N", "O", "P", "Q", "R", "S", "T", "U", "V", "W", "X", "Y", "Z"}

Digit == {"0", "1", "2", "3", "4", "5", "6", "7", "8", "9"}

\* [a-zA-Z]
Letter == Lower \cup Upper

\* [a-zA-Z0-9-]
NameChar == Letter \cup Digit \cup {"-"}

\* \w, the class that decides \b
WordChar == Letter \cup Digit \cup {"_"}

\* \s (the white space that occurs in the texts of this model)
Space == {" ", "\t", "\n", "\r"}

LowerOf ==
  [A |-> "a", B |-> "b", C |-> "c", D |-> "d", E |-> "e", F |-> "f", G |-> "g",
   H |-> "h", I |-> "i", J |-> "j", K |-> "k", L |-> "l", M |-> "m", N |-> "n",
   O |-> "o", P |-> "p", Q |-> "q", R |-> "r", S |-> "s", T |-> "t", U |-> "u",
   V |-> "v", W |-> "w", X |-> "x", Y |-> "y", Z |-> "z"]

\* String.prototype.toLowerCase on one character
LowerChar(c) == IF c \in Upper THEN LowerOf[c] ELSE c

\* s[i] for a 0-based index i
At(s, i) == s[i + 1]

\* String.prototype.slice(a, b) for 0 <= a and 0 <= b <= s.length
Slice(s, a, b) == IF a >= b THEN <<>> ELSE SubSeq(s, a + 1, b)

\* the JavaScript string made of the characters of s, lower-cased
RECURSIVE LowerName(_)
LowerName(s) == IF s = <<>> THEN "" ELSE LowerChar(Head(s)) \o LowerName(Tail(s))

\* String.prototype.indexOf(ch, from): the first index >= from holding ch, or -1
RECURSIVE IndexOf(_, _, _)
IndexOf(s, ch, from) ==
  IF from >= Len(s) THEN -1
  ELSE IF At(s, from) = ch THEN from
  ELSE IndexOf(s, ch, from + 1)

\* whether the characters of s from index i on begin with lit, ignoring case when ic
StartsWithAt(s, i, lit, ic) ==
  /\ i >= 0
  /\ i + Len(lit) <= Len(s)
  /\ \A k \in 1..Len(lit) :
       IF ic THEN LowerChar(s[i + k]) = LowerChar(lit[k]) ELSE s[i + k] = lit[k]

\* String.prototype.endsWith
EndsWith(s, lit) == StartsWithAt(s, Len(s) - Len(lit), lit, FALSE)

\* the first index >= i whose character is outside class, or s.length
RECURSIVE SkipClass(_, _, _)
SkipClass(s, i, class) ==
  IF i < Len(s) /\ At(s, i) \in class THEN SkipClass(s, i + 1, class) ELSE i

-----------------------------------------------------------------------------
(* nestingRules.ts: the rule catalog *)

ALL_HTML_TAGS ==
  <<
    "a", "abbr", "address", "area", "article", "aside", "audio", "b", "base", "bdi", "bdo",
    "blockquote", "body", "br", "button", "canvas", "caption", "cite", "code", "col",
    "colgroup", "data", "datalist", "dd", "del", "details", "dfn", "dialog", "div", "dl",
    "dt", "em", "embed", "fieldset", "figcaption", "figure", "footer", "form", "h1", "h2",
    "h3", "h4", "h5", "h6", "head", "header", "hgroup", "hr", "html", "i", "iframe", "img",
    "input", "ins", "kbd", "label", "legend", "li", "link", "main", "map", "mark", "menu",
    "meta", "meter", "nav", "noscript", "object", "ol", "optgroup", "option", "output", "p",
    "param", "picture", "pre", "progress", "q", "rp", "rt", "ruby", "s", "samp", "script",
    "search", "section", "select", "slot", "small", "source", "span", "strong", "style",
    "sub", "summary", "sup", "table", "tbody", "td", "template", "textarea", "tfoot", "th",
    "thead", "time", "title", "tr", "track", "u", "ul", "var", "video", "wbr"
  >>

PHRASING_CONTENT_TAGS ==
  {
    "a", "abbr", "audio", "b", "bdi", "bdo", "br", "button", "canvas", "cite", "code",
    "data", "datalist", "del", "dfn", "em", "embed", "i", "iframe", "img", "input", "ins",
    "kbd", "label", "map", "mark", "meter", "noscript", "object", "output", "picture",
    "progress", "q", "ruby", "s", "samp", "script", "select", "slot", "small", "span",
    "strong", "sub", "sup", "template", "textarea", "time", "u", "var", "video", "wbr"
  }

NESTING_RULES ==
  <<
    [parent |-> "p", child |-> "div",
     reason |-> "<p> solo puede contener phrasing content (texto e inline). <div> es un bloque y cierra implicitamente el <p>.",
     alternatives |-> <<"Usa <div> en lugar de <p> si necesitas contener bloques.", "Mueve el <div> fuera del <p>.", "Si quieres un parrafo con un wrapper, usa <section> o <article>.">>,
     references |-> <<[label |-> "MDN: <p>", url |-> "https://developer.mozilla.org/es/docs/Web/HTML/Element/p"], [label |-> "HTML Spec: phrasing content", url |-> "https://html.spec.whatwg.org/multipage/dom.html#phrasing-content"]>>],
    [parent |-> "p", child |-> "h1",
     reason |-> "Los encabezados no pueden ir dentro de <p>.",
     alternatives |-> <<"Cierra el <p> antes del encabezado.", "Usa <p> antes y despues del encabezado.">>,
     references |-> <<[label |-> "MDN: <p>", url |-> "https://developer.mozilla.org/es/docs/Web/HTML/Element/p"]>>],
    [parent |-> "p", child |-> "h2",
     reason |-> "Los encabezados no pueden ir dentro de <p>.",
     alternatives |-> <<"Cierra el <p> antes del encabezado.">>,
     references |-> <<[label |-> "MDN: <p>", url |-> "https://developer.mozilla.org/es/docs/Web/HTML/Element/p"]>>],
    [parent |-> "p", child |-> "h3",
     reason |-> "Los encabezados no pueden ir dentro de <p>.",
     alternatives |-> <<"Cierra el <p> antes del encabezado.">>,
     references |-> <<[label |-> "MDN: <p>", url |-> "https://developer.mozilla.org/es/docs/Web/HTML/Element/p"]>>],
    [parent |-> "p", child |-> "h4",
     reason |-> "Los encabezados no pueden ir dentro de <p>.",
     alternatives |-> <<"Cierra el <p> antes del encabezado.">>,
     references |-> <<[label |-> "MDN: <p>", url |-> "https://developer.mozilla.org/es/docs/Web/HTML/Element/p"]>>],
    [parent |-> "p", child |-> "h5",
     reason |-> "Los encabezados no pueden ir dentro de <p>.",
     alternatives |-> <<"Cierra el <p> antes del encabezado.">>,
     references |-> <<[label |-> "MDN: <p>", url |-> "https://developer.mozilla.org/es/docs/Web/HTML/Element/p"]>>],
    [parent |-> "p", child |-> "h6",
     reason |-> "Los encabezados no pueden ir dentro de <p>.",
     alternatives |-> <<"Cierra el <p> antes del encabezado.">>,
     references |-> <<[label |-> "MDN: <p>", url |-> "https://developer.mozilla.org/es/docs/Web/HTML/Element/p"]>>],
    [parent |-> "p", child |-> "ul",
     reason |-> "<ul> es un bloque y no puede ir dentro de <p>.",
     alternatives |-> <<"Cierra <p> antes de la lista.", "Usa un <div> como wrapper en lugar de <p>.">>,
     references |-> <<[label |-> "MDN: <p>", url |-> "https://developer.mozilla.org/es/docs/Web/HTML/Element/p"]>>],
    [parent |-> "p", child |-> "ol",
     reason |-> "<ol> es un bloque y no puede ir dentro de <p>.",
     alternatives |-> <<"Cierra <p> antes de la lista.", "Usa un <div> como wrapper.">>,
     references |-> <<[label |-> "MDN: <p>", url |-> "https://developer.mozilla.org/es/docs/Web/HTML/Element/p"]>>],
    [parent |-> "p", child |-> "table",
     reason |-> "<table> es un bloque y no puede ir dentro de <p>.",
     alternatives |-> <<"Coloca la tabla fuera del <p>.", "Usa un <div> o <section> como contenedor.">>,
     references |-> <<[label |-> "MDN: <p>", url |-> "https://developer.mozilla.org/es/docs/Web/HTML/Element/p"]>>],
    [parent |-> "p", child |-> "form",
     reason |-> "<form> no puede anidarse dentro de <p>.",
     alternatives |-> <<"Coloca el <form> fuera del <p>.">>,
     references |-> <<[label |-> "MDN: <p>", url |-> "https://developer.mozilla.org/es/docs/Web/HTML/Element/p"]>>],
    [parent |-> "p", child |-> "blockquote",
     reason |-> "<blockquote> es un bloque y no puede ir dentro de <p>.",
     alternatives |-> <<"Coloca el <blockquote> fuera del <p>.">>,
     references |-> <<[label |-> "MDN: <p>", url |-> "https://developer.mozilla.org/es/docs/Web/HTML/Element/p"]>>],
    [parent |-> "p", child |-> "pre",
     reason |-> "<pre> es un bloque y no puede ir dentro de <p>.",
     alternatives |-> <<"Coloca el <pre> fuera del <p>.">>,
     references |-> <<[label |-> "MDN: <p>", url |-> "https://developer.mozilla.org/es/docs/Web/HTML/Element/p"]>>],
    [parent |-> "p", child |-> "section",
     reason |-> "<section> es un bloque y no puede ir dentro de <p>.",
     alternatives |-> <<"Usa <div> en lugar de <p>, o reestructura el contenido.">>,
     references |-> <<[label |-> "MDN: <p>", url |-> "https://developer.mozilla.org/es/docs/Web/HTML/Element/p"]>>],
    [parent |-> "p", child |-> "article",
     reason |-> "<article> es un bloque y no puede ir dentro de <p>.",
     alternatives |-> <<"Usa <div> como contenedor en lugar de <p>.">>,
     references |-> <<[label |-> "MDN: <p>", url |-> "https://developer.mozilla.org/es/docs/Web/HTML/Element/p"]>>],
    [parent |-> "p", child |-> "aside",
     reason |-> "<aside> es un bloque y no puede ir dentro de <p>.",
     alternatives |-> <<"Usa <div> como contenedor.">>,
     references |-> <<[label |-> "MDN: <p>", url |-> "https://developer.mozilla.org/es/docs/Web/HTML/Element/p"]>>],
    [parent |-> "p", child |-> "figure",
     reason |-> "<figure> es un bloque y no puede ir dentro de <p>.",
     alternatives |-> <<"Coloca el <figure> fuera del <p>.">>,
     references |-> <<[label |-> "MDN: <figure>", url |-> "https://developer.mozilla.org/es/docs/Web/HTML/Element/figure"]>>],
    [parent |-> "p", child |-> "footer",
     reason |-> "<footer> es un bloque y no puede ir dentro de <p>.",
     alternatives |-> <<"Coloca el <footer> fuera del <p>.">>,
     references |-> <<[label |-> "MDN: <p>", url |-> "https://developer.mozilla.org/es/docs/Web/HTML/Element/p"]>>],
    [parent |-> "p", child |-> "header",
     reason |-> "<header> es un bloque y no puede ir dentro de <p>.",
     alternatives |-> <<"Coloca el <header> fuera del <p>.">>,
     references |-> <<[label |-> "MDN: <p>", url |-> "https://developer.mozilla.org/es/docs/Web/HTML/Element/p"]>>],
    [parent |-> "p", child |-> "nav",
     reason |-> "<nav> es un bloque y no puede ir dentro de <p>.",
     alternatives |-> <<"Coloca el <nav> fuera del <p>.">>,
     references |-> <<[label |-> "MDN: <p>", url |-> "https://developer.mozilla.org/es/docs/Web/HTML/Element/p"]>>],
    [parent |-> "p", child |-> "main",
     reason |-> "<main> es un bloque y no puede ir dentro de <p>.",
     alternatives |-> <<"Coloca el <main> fuera del <p>.">>,
     references |-> <<[label |-> "MDN: <p>", url |-> "https://developer.mozilla.org/es/docs/Web/HTML/Element/p"]>>],
    [parent |-> "a", child |-> "a",
     reason |-> "No puedes anidar un <a> dentro de otro <a>. Es invalido segun la especificacion HTML.",
     alternatives |-> <<"Usa CSS para dar apariencia de enlace a un contenedor.", "Usa JavaScript (onclick) en un <div> o <span>.", "Reestructura el contenido para tener enlaces separados.">>,
     references |-> <<[label |-> "MDN: <a>", url |-> "https://developer.mozilla.org/es/docs/Web/HTML/Element/a"], [label |-> "HTML Spec: transparent content", url |-> "https://html.spec.whatwg.org/multipage/text-level-semantics.html#the-a-element"]>>],
    [parent |-> "a", child |-> "button",
     reason |-> "Un <button> es interactivo y no puede estar dentro de un <a> (ambos son focusables).",
     alternatives |-> <<"Usa solo <a> o solo <button>, no ambos.", "Si necesitas un enlace con estilo de boton, usa <a class='btn'>.", "Si necesitas accion + navegacion, maneja con JavaScript.">>,
     references |-> <<[label |-> "MDN: <a>", url |-> "https://developer.mozilla.org/es/docs/Web/HTML/Element/a"], [label |-> "WCAG: Interactive elements", url |-> "https://www.w3.org/WAI/WCAG21/Understanding/keyboard.html"]>>],
    [parent |-> "a", child |-> "input",
     reason |-> "Elementos de formulario interactivos no deben ir dentro de <a>.",
     alternatives |-> <<"Usa el formulario fuera del enlace.", "Usa JavaScript para la accion del input.">>,
     references |-> <<[label |-> "MDN: <a>", url |-> "https://developer.mozilla.org/es/docs/Web/HTML/Element/a"]>>],
    [parent |-> "a", child |-> "select",
     reason |-> "Elementos de formulario interactivos no deben ir dentro de <a>.",
     alternatives |-> <<"Usa el select fuera del enlace.">>,
     references |-> <<[label |-> "MDN: <a>", url |-> "https://developer.mozilla.org/es/docs/Web/HTML/Element/a"]>>],
    [parent |-> "a", child |-> "textarea",
     reason |-> "Elementos de formulario interactivos no deben ir dentro de <a>.",
     alternatives |-> <<"Usa el textarea fuera del enlace.">>,
     references |-> <<[label |-> "MDN: <a>", url |-> "https://developer.mozilla.org/es/docs/Web/HTML/Element/a"]>>],
    [parent |-> "button", child |-> "a",
     reason |-> "Un enlace <a> no puede estar dentro de un <button>. Crea conflictos de accesibilidad y comportamiento.",
     alternatives |-> <<"Usa solo <a> con estilos CSS para que parezca boton.", "Usa solo <button> con JavaScript para la navegacion.", "Usa <a role='button'> para semantica de boton en un enlace.">>,
     references |-> <<[label |-> "MDN: <button>", url |-> "https://developer.mozilla.org/es/docs/Web/HTML/Element/button"], [label |-> "WCAG: Botones y enlaces", url |-> "https://www.w3.org/WAI/WCAG21/Techniques/html/H91"]>>],
    [parent |-> "button", child |-> "button",
     reason |-> "No puedes anidar un <button> dentro de otro <button>.",
     alternatives |-> <<"Usa botones separados.", "Usa CSS para crear grupos de botones visualmente.">>,
     references |-> <<[label |-> "MDN: <button>", url |-> "https://developer.mozilla.org/es/docs/Web/HTML/Element/button"]>>],
    [parent |-> "button", child |-> "input",
     reason |-> "Elementos de formulario interactivos no deben ir dentro de <button>.",
     alternatives |-> <<"Usa el input fuera del boton.">>,
     references |-> <<[label |-> "MDN: <button>", url |-> "https://developer.mozilla.org/es/docs/Web/HTML/Element/button"]>>],
    [parent |-> "table", child |-> "div",
     reason |-> "<div> no puede ser hijo directo de <table>. Los hijos validos son: <thead>, <tbody>, <tfoot>, <tr>, <caption>, <colgroup>.",
     alternatives |-> <<"Usa <td> o <th> para el contenido.", "Coloca el <div> dentro de una celda <td>.", "Considera usar CSS Grid o Flexbox si no necesitas semantica de tabla.">>,
     references |-> <<[label |-> "MDN: <table>", url |-> "https://developer.mozilla.org/es/docs/Web/HTML/Element/table"], [label |-> "HTML Spec: table", url |-> "https://html.spec.whatwg.org/multipage/tables.html#the-table-element"]>>],
    [parent |-> "table", child |-> "p",
     reason |-> "<p> no puede ser hijo directo de <table>.",
     alternatives |-> <<"Coloca el <p> dentro de una celda <td>.", "Usa <caption> para texto descriptivo de la tabla.">>,
     references |-> <<[label |-> "MDN: <table>", url |-> "https://developer.mozilla.org/es/docs/Web/HTML/Element/table"]>>],
    [parent |-> "tr", child |-> "div",
     reason |-> "<div> no puede ser hijo directo de <tr>. Solo se permiten <td> y <th>.",
     alternatives |-> <<"Coloca el <div> dentro de <td>.", "Usa CSS para lograr el layout deseado dentro de la celda.">>,
     references |-> <<[label |-> "MDN: <tr>", url |-> "https://developer.mozilla.org/es/docs/Web/HTML/Element/tr"]>>],
    [parent |-> "tr", child |-> "p",
     reason |-> "<p> no puede ser hijo directo de <tr>. Solo se permiten <td> y <th>.",
     alternatives |-> <<"Coloca el <p> dentro de <td>.">>,
     references |-> <<[label |-> "MDN: <tr>", url |-> "https://developer.mozilla.org/es/docs/Web/HTML/Element/tr"]>>],
    [parent |-> "tr", child |-> "span",
     reason |-> "<span> no puede ser hijo directo de <tr>.",
     alternatives |-> <<"Coloca el <span> dentro de <td>.">>,
     references |-> <<[label |-> "MDN: <tr>", url |-> "https://developer.mozilla.org/es/docs/Web/HTML/Element/tr"]>>],
    [parent |-> "tr", child |-> "a",
     reason |-> "<a> no puede ser hijo directo de <tr>.",
     alternatives |-> <<"Coloca el enlace dentro de <td>.">>,
     references |-> <<[label |-> "MDN: <tr>", url |-> "https://developer.mozilla.org/es/docs/Web/HTML/Element/tr"]>>],
    [parent |-> "ul", child |-> "div",
     reason |-> "<ul> solo puede contener elementos <li> como hijos directos.",
     alternatives |-> <<"Envuelve el <div> dentro de un <li>.", "Usa CSS Flexbox/Grid en lugar de <ul> si no necesitas semantica de lista.">>,
     references |-> <<[label |-> "MDN: <ul>", url |-> "https://developer.mozilla.org/es/docs/Web/HTML/Element/ul"]>>],
    [parent |-> "ul", child |-> "p",
     reason |-> "<ul> solo puede contener elementos <li> como hijos directos.",
     alternatives |-> <<"Envuelve el <p> dentro de un <li>.">>,
     references |-> <<[label |-> "MDN: <ul>", url |-> "https://developer.mozilla.org/es/docs/Web/HTML/Element/ul"]>>],
    [parent |-> "ul", child |-> "span",
     reason |-> "<ul> solo puede contener elementos <li> como hijos directos.",
     alternatives |-> <<"Envuelve el <span> dentro de un <li>.">>,
     references |-> <<[label |-> "MDN: <ul>", url |-> "https://developer.mozilla.org/es/docs/Web/HTML/Element/ul"]>>],
    [parent |-> "ul", child |-> "a",
     reason |-> "<ul> solo puede contener <li> como hijos directos.",
     alternatives |-> <<"Envuelve el <a> dentro de un <li>.">>,
     references |-> <<[label |-> "MDN: <ul>", url |-> "https://developer.mozilla.org/es/docs/Web/HTML/Element/ul"]>>],
    [parent |-> "ol", child |-> "div",
     reason |-> "<ol> solo puede contener elementos <li> como hijos directos.",
     alternatives |-> <<"Envuelve el <div> dentro de un <li>.">>,
     references |-> <<[label |-> "MDN: <ol>", url |-> "https://developer.mozilla.org/es/docs/Web/HTML/Element/ol"]>>],
    [parent |-> "ol", child |-> "p",
     reason |-> "<ol> solo puede contener elementos <li> como hijos directos.",
     alternatives |-> <<"Envuelve el <p> dentro de un <li>.">>,
     references |-> <<[label |-> "MDN: <ol>", url |-> "https://developer.mozilla.org/es/docs/Web/HTML/Element/ol"]>>],
    [parent |-> "head", child |-> "div",
     reason |-> "<head> no puede contener elementos visibles como <div>.",
     alternatives |-> <<"Coloca el <div> dentro del <body>.", "Usa <meta>, <link>, <script> o <style> dentro de <head>.">>,
     references |-> <<[label |-> "MDN: <head>", url |-> "https://developer.mozilla.org/es/docs/Web/HTML/Element/head"]>>],
    [parent |-> "head", child |-> "p",
     reason |-> "<head> no puede contener elementos visibles como <p>.",
     alternatives |-> <<"Coloca el contenido dentro del <body>.">>,
     references |-> <<[label |-> "MDN: <head>", url |-> "https://developer.mozilla.org/es/docs/Web/HTML/Element/head"]>>],
    [parent |-> "form", child |-> "form",
     reason |-> "No puedes anidar un <form> dentro de otro <form>.",
     alternatives |-> <<"Usa un solo formulario con fieldsets para agrupar.", "Usa JavaScript para manejar multiples sets de datos.", "Usa <dialog> para formularios secundarios.">>,
     references |-> <<[label |-> "MDN: <form>", url |-> "https://developer.mozilla.org/es/docs/Web/HTML/Element/form"], [label |-> "HTML Spec: form", url |-> "https://html.spec.whatwg.org/multipage/form-elements.html#the-form-element"]>>],
    [parent |-> "h1", child |-> "h1",
     reason |-> "No puedes anidar encabezados del mismo nivel.",
     alternatives |-> <<"Usa encabezados jerarquicos (h1 > h2 > h3...).">>,
     references |-> <<[label |-> "MDN: Headings", url |-> "https://developer.mozilla.org/es/docs/Web/HTML/Element/Heading_Elements"]>>],
    [parent |-> "h1", child |-> "h2",
     reason |-> "No puedes anidar encabezados dentro de otros encabezados.",
     alternatives |-> <<"Usa los encabezados como elementos separados, no anidados.">>,
     references |-> <<[label |-> "MDN: Headings", url |-> "https://developer.mozilla.org/es/docs/Web/HTML/Element/Heading_Elements"]>>],
    [parent |-> "h2", child |-> "h1",
     reason |-> "No puedes anidar encabezados.",
     alternatives |-> <<"Usa los encabezados como elementos separados.">>,
     references |-> <<[label |-> "MDN: Headings", url |-> "https://developer.mozilla.org/es/docs/Web/HTML/Element/Heading_Elements"]>>],
    [parent |-> "label", child |-> "label",
     reason |-> "No puedes anidar un <label> dentro de otro <label>.",
     alternatives |-> <<"Usa etiquetas separadas para cada control de formulario.">>,
     references |-> <<[label |-> "MDN: <label>", url |-> "https://developer.mozilla.org/es/docs/Web/HTML/Element/label"]>>],
    [parent |-> "select", child |-> "div",
     reason |-> "<select> solo puede contener <option> y <optgroup>.",
     alternatives |-> <<"Usa <option> para las opciones.", "Si necesitas mas control visual, considera librerias de UI custom.">>,
     references |-> <<[label |-> "MDN: <select>", url |-> "https://developer.mozilla.org/es/docs/Web/HTML/Element/select"]>>],
    [parent |-> "select", child |-> "span",
     reason |-> "<select> solo puede contener <option> y <optgroup>.",
     alternatives |-> <<"Usa <option> dentro de <select>.">>,
     references |-> <<[label |-> "MDN: <select>", url |-> "https://developer.mozilla.org/es/docs/Web/HTML/Element/select"]>>],
    [parent |-> "figcaption", child |-> "figcaption",
     reason |-> "No puedes anidar <figcaption> dentro de otro <figcaption>.",
     alternatives |-> <<"Usa solo un <figcaption> por <figure>.">>,
     references |-> <<[label |-> "MDN: <figcaption>", url |-> "https://developer.mozilla.org/es/docs/Web/HTML/Element/figcaption"]>>],
    [parent |-> "summary", child |-> "div",
     reason |-> "<summary> solo puede contener phrasing content. <div> es un bloque.",
     alternatives |-> <<"Usa <span> o texto directamente en <summary>.">>,
     references |-> <<[label |-> "MDN: <summary>", url |-> "https://developer.mozilla.org/es/docs/Web/HTML/Element/summary"]>>],
    [parent |-> "dt", child |-> "div",
     reason |-> "<dt> solo puede contener phrasing content.",
     alternatives |-> <<"Usa solo texto o elementos inline dentro de <dt>.">>,
     references |-> <<[label |-> "MDN: <dt>", url |-> "https://developer.mozilla.org/es/docs/Web/HTML/Element/dt"]>>],
    [parent |-> "caption", child |-> "table",
     reason |-> "No puedes anidar una tabla dentro de <caption>.",
     alternatives |-> <<"Usa <p> o texto simple en <caption>.">>,
     references |-> <<[label |-> "MDN: <caption>", url |-> "https://developer.mozilla.org/es/docs/Web/HTML/Element/caption"]>>]
  >>


\* a variant that loses the first element of the list
HTML_TAGS_SET_FromSecond == {ALL_HTML_TAGS[i] : i \in 2..Len(ALL_HTML_TAGS)}

\* new Set(ALL_HTML_TAGS)
HTML_TAGS_SET == {ALL_HTML_TAGS[i] : i \in DOMAIN ALL_HTML_TAGS}

DEFAULT_REFS ==
  <<[label |-> "HTML Living Standard", url |-> "https://html.spec.whatwg.org/"],
    [label |-> "MDN: Referencia HTML", url |-> "https://developer.mozilla.org/es/docs/Web/HTML/Element"]>>

makeRule(parent, child, reason, alternatives) ==
  [parent |-> parent, child |-> child, reason |-> reason,
   alternatives |-> alternatives, references |-> DEFAULT_REFS]

\* a variant whose test lacks the negation: one rule for every allowed child
generateRulesForAllowedChildren_Inverted(parent, allowedChildren, reason, alternatives) ==
  LET allowed == SelectSeq(ALL_HTML_TAGS, LAMBDA child : child \in allowedChildren)
  IN  [i \in 1..Len(allowed) |-> makeRule(parent, allowed[i], reason, alternatives)]

\* one rule for every catalog tag that is not an allowed child, in catalog order
generateRulesForAllowedChildren(parent, allowedChildren, reason, alternatives) ==
  LET forbidden == SelectSeq(ALL_HTML_TAGS, LAMBDA child : child \notin allowedChildren)
  IN  [i \in 1..Len(forbidden) |-> makeRule(parent, forbidden[i], reason, alternatives)]

\* the rules makeRule gives for one parent and a list of children
RulesForChildren(parent, children, reason, alternatives) ==
  [i \in 1..Len(children) |-> makeRule(parent, children[i], reason, alternatives)]

\* the rules of the three loops over a list of parents with one allowed set
RECURSIVE RulesForParents(_, _, _, _)
RulesForParents(parents, allowedChildren, reasonTail, alternatives) ==
  IF parents = <<>> THEN <<>>
  ELSE generateRulesForAllowedChildren(Head(parents), allowedChildren,
                                       "<" \o Head(parents) \o reasonTail, alternatives)
       \o RulesForParents(Tail(parents), allowedChildren, reasonTail, alternatives)

phrasingOnlyParents == <<"p", "summary", "dt", "legend", "h1", "h2", "h3", "h4", "h5", "h6">>

interactiveInsideA == <<"a", "button", "input", "select", "textarea", "label", "details">>

interactiveInsideButton ==
  <<"a", "button", "input", "select", "textarea", "label", "details", "form">>

autoRules ==
  generateRulesForAllowedChildren("html", {"head", "body"},
    "<html> solo puede contener <head> y <body> como hijos directos.",
    <<"Mueve este elemento dentro de <head> o <body> segun corresponda.">>)
  \o generateRulesForAllowedChildren("head",
    {"base", "link", "meta", "noscript", "script", "style", "template", "title"},
    "<head> solo puede contener metadatos y recursos del documento.",
    <<"Mueve contenido visible dentro de <body>.">>)
  \o generateRulesForAllowedChildren("table",
    {"caption", "colgroup", "thead", "tbody", "tfoot", "tr", "script", "template"},
    "<table> tiene una estructura de hijos directos restringida por la especificacion.",
    <<"Usa <thead>, <tbody>, <tfoot> y filas <tr> para estructurar la tabla.">>)
  \o generateRulesForAllowedChildren("colgroup", {"col", "template"},
    "<colgroup> solo admite <col> (y opcionalmente <template>).",
    <<"Reemplaza este hijo por elementos <col>.">>)
  \o RulesForParents(<<"thead", "tbody", "tfoot">>, {"tr", "script", "template"},
    "> solo admite filas <tr> como hijos directos.",
    <<"Mueve este elemento dentro de una celda (<td>/<th>) dentro de <tr>.">>)
  \o generateRulesForAllowedChildren("tr", {"td", "th", "script", "template"},
    "<tr> solo puede contener celdas <td> o encabezados <th>.",
    <<"Encapsula el contenido dentro de <td> o <th>.">>)
  \o RulesForParents(<<"ul", "ol", "menu">>, {"li", "script", "template"},
    "> solo puede contener <li> como hijos directos.",
    <<"Envuelve el contenido en <li>.">>)
  \o generateRulesForAllowedChildren("dl", {"dt", "dd", "script", "template"},
    "<dl> solo puede contener pares <dt>/<dd> como hijos directos.",
    <<"Usa <dt> para terminos y <dd> para descripciones.">>)
  \o generateRulesForAllowedChildren("select",
    {"option", "optgroup", "hr", "script", "template"},
    "<select> solo admite <option> y <optgroup> como contenido principal.",
    <<"Reemplaza este elemento por <option> u <optgroup>.">>)
  \o generateRulesForAllowedChildren("optgroup", {"option", "script", "template"},
    "<optgroup> solo puede contener elementos <option>.",
    <<"Mueve este nodo fuera del <optgroup> o conviertelo en <option>.">>)
  \o generateRulesForAllowedChildren("picture", {"source", "img", "script", "template"},
    "<picture> solo puede contener <source> y un <img> de fallback.",
    <<"Usa <source> para variantes y <img> como fallback.">>)
  \o RulesForParents(phrasingOnlyParents, PHRASING_CONTENT_TAGS,
    "> solo puede contener phrasing content (contenido inline).",
    <<"Mueve elementos de bloque fuera del contenedor o usa un wrapper de bloque.">>)
  \o RulesForChildren("a", interactiveInsideA,
    "<a> no debe contener elementos interactivos anidados.",
    <<"Usa un unico elemento interactivo por control de UI.">>)
  \o RulesForChildren("button", interactiveInsideButton,
    "<button> no debe contener elementos interactivos anidados.",
    <<"Usa controles separados o reestructura la interaccion.">>)
  \o <<makeRule("form", "form", "No puedes anidar un <form> dentro de otro <form>.",
                <<"Usa un unico formulario y agrupa secciones con <fieldset>.">>)>>
  \o <<makeRule("label", "label", "No puedes anidar un <label> dentro de otro <label>.",
                <<"Usa etiquetas separadas para cada control de formulario.">>)>>

\* the filter that closes generateAutomaticRules
generateAutomaticRules ==
  SelectSeq(autoRules, LAMBDA rule : rule.parent \in HTML_TAGS_SET /\ rule.child \in HTML_TAGS_SET)

GENERATED_NESTING_RULES == generateAutomaticRules

NESTING_RULES_COMPLETE == NESTING_RULES \o GENERATED_NESTING_RULES

\* the Map key `${rule.parent}::${rule.child}`
RuleKey(parent, child) == parent \o "::" \o child

\* the Map after map.set(key, rule) for rules[lo..hi] in order: a later set overwrites
RECURSIVE SetAll(_, _, _)
SetAll(rules, lo, hi) ==
  IF lo > hi THEN <<>>
  ELSE IF lo = hi THEN RuleKey(rules[lo].parent, rules[lo].child) :> rules[lo]
  ELSE LET mid == (lo + hi) \div 2
       IN  SetAll(rules, mid + 1, hi) @@ SetAll(rules, lo, mid)

buildRulesMap(rules) == SetAll(rules, 1, Len(rules))

RULES_MAP == buildRulesMap(NESTING_RULES_COMPLETE)

\* RULES_MAP.get(key): the rule, or Undefined
Undefined == [undefined |-> TRUE]

MapGet(map, key) == IF key \in DOMAIN map THEN map[key] ELSE Undefined

-----------------------------------------------------------------------------
(* parser.js: region extraction *)

\* a variant of the set without input
VOID_ELEMENTS_WithoutInput ==
  {"area", "base", "br", "col", "embed", "hr", "img",
   "link", "meta", "param", "source", "track", "wbr"}

VOID_ELEMENTS ==
  {"area", "base", "br", "col", "embed", "hr", "img", "input",
   "link", "meta", "param", "source", "track", "wbr"}

SKIP_CONTENT_TAGS == {"script", "style", "template"}

Null == [null |-> TRUE]

\* skipUntil = null. `if (skipUntil)` tests truthiness and no tag name is empty, so
\* the empty string stands for null.
NoSkip == ""

WholeText(text) == <<[text |-> text, baseOffset |-> 0]>>

\* /\breturn\s*\(\s*/ tried at index i: the index after the match, or -1
ReturnMatchEnd(text, i) ==
  IF /\ StartsWithAt(text, i, <<"r", "e", "t", "u", "r", "n">>, FALSE)
     /\ (i = 0 \/ At(text, i - 1) \notin WordChar)
  THEN LET paren == SkipClass(text, i + 6, Space)
       IN  IF paren < Len(text) /\ At(text, paren) = "("
           THEN SkipClass(text, paren + 1, Space)
           ELSE -1
  ELSE -1

\* returnRegex.exec(content) with lastIndex = from: [index, end] of the leftmost
\* match at or after from, or Null
RECURSIVE ReturnExec(_, _)
ReturnExec(text, from) ==
  IF from >= Len(text) THEN Null
  ELSE IF ReturnMatchEnd(text, from) # -1
       THEN [index |-> from, end |-> ReturnMatchEnd(text, from)]
       ELSE ReturnExec(text, from + 1)

\* the while loop that counts parentheses: the value of i when it ends
RECURSIVE ParenScan(_, _, _)
ParenScan(text, i, depth) ==
  IF i < Len(text) /\ depth > 0
  THEN ParenScan(text, i + 1,
                 IF At(text, i) = "(" THEN depth + 1
                 ELSE IF At(text, i) = ")" THEN depth - 1
                 ELSE depth)
  ELSE i

\* the regions pushed by the while loop of extractJsxRegions from lastIndex on
RECURSIVE JsxRegionsFrom(_, _)
JsxRegionsFrom(text, from) ==
  LET match == ReturnExec(text, from)
  IN  IF match = Null THEN <<>>
      ELSE LET start == match.end
               ltIdx == IndexOf(text, "<", start)
               end   == ParenScan(text, start, 1) - 1
           IN  IF ltIdx = -1
               THEN JsxRegionsFrom(text, match.end)
               ELSE <<[text |-> Slice(text, ltIdx, end), baseOffset |-> ltIdx]>>
                    \o JsxRegionsFrom(text, match.end)

\* a variant without the fallback to the whole content
extractJsxRegions_NoFallback(text) == JsxRegionsFrom(text, 0)

extractJsxRegions(text) ==
  LET found == JsxRegionsFrom(text, 0)
  IN  IF Len(found) = 0 THEN WholeText(text) ELSE found

\* the first index >= from where lit begins, ignoring case, or -1
RECURSIVE FindLiteral(_, _, _)
FindLiteral(text, lit, from) ==
  IF from + Len(lit) > Len(text) THEN -1
  ELSE IF StartsWithAt(text, from, lit, TRUE) THEN from
  ELSE FindLiteral(text, lit, from + 1)

TemplateOpen == <<"<", "t", "e", "m", "p", "l", "a", "t", "e">>

TemplateClose == <<"<", "/", "t", "e", "m", "p", "l", "a", "t", "e", ">">>

\* /<template[^>]*>([\s\S]*?)<\/template>/i .exec(content): the leftmost match as
\* [index, gt, close] (gt: the > that ends the opening tag, close: where the
\* closing tag begins), or Null
RECURSIVE TemplateExec(_, _)
TemplateExec(text, from) ==
  LET index == FindLiteral(text, TemplateOpen, from)
  IN  IF index = -1 THEN Null
      ELSE LET gt    == IndexOf(text, ">", index + Len(TemplateOpen))
               close == IF gt = -1 THEN -1 ELSE FindLiteral(text, TemplateClose, gt + 1)
           IN  IF close # -1
               THEN [index |-> index, gt |-> gt, close |-> close]
               ELSE TemplateExec(text, index + 1)

\* a variant that takes the offset of the opening tag for the offset of the inner text
extractTemplateRegion_TagOffset(text) ==
  LET match == TemplateExec(text, 0)
  IN  IF match # Null
      THEN <<[text |-> Slice(text, match.gt + 1, match.close), baseOffset |-> match.index]>>
      ELSE WholeText(text)

extractTemplateRegion(text) ==
  LET match == TemplateExec(text, 0)
  IN  IF match # Null
      THEN LET offset == match.index + (match.gt - match.index) + 1
           IN  <<[text |-> Slice(text, match.gt + 1, match.close), baseOffset |-> offset]>>
      ELSE WholeText(text)

extractMarkupRegions(text, lang) ==
  CASE lang = "html" -> WholeText(text)
    [] lang \in {"javascriptreact", "typescriptreact"} -> extractJsxRegions(text)
    [] lang \in {"vue", "svelte"} -> extractTemplateRegion(text)
    [] lang = "html-angular" -> WholeText(text)
    [] OTHER -> WholeText(text)

-----------------------------------------------------------------------------
(* parser.js: the tag tokenizer *)

\* a variant that takes a tag the text ends in, without its >, for a match
TagMatchAt_Unterminated(text, i) ==
  IF i >= Len(text) \/ At(text, i) # "<" THEN Null
  ELSE LET nameStart == IF i + 1 < Len(text) /\ At(text, i + 1) = "/" THEN i + 2 ELSE i + 1
       IN  IF nameStart >= Len(text) \/ At(text, nameStart) \notin Letter THEN Null
           ELSE LET nameEnd == SkipClass(text, nameStart, NameChar)
                    gt      == IndexOf(text, ">", nameEnd)
                IN  [index |-> i, end |-> IF gt = -1 THEN Len(text) ELSE gt + 1,
                     nameStart |-> nameStart, nameEnd |-> nameEnd]

\* tagRegex tried at index i: [index, end, nameStart, nameEnd] or Null.
\* The attribute group [^>]* is greedy and takes a trailing slash with it, so the
\* match ends at the first > after the name and group 2 is always empty.
TagMatchAt(text, i) ==
  IF i >= Len(text) \/ At(text, i) # "<" THEN Null
  ELSE LET nameStart == IF i + 1 < Len(text) /\ At(text, i + 1) = "/" THEN i + 2 ELSE i + 1
       IN  IF nameStart >= Len(text) \/ At(text, nameStart) \notin Letter THEN Null
           ELSE LET nameEnd == SkipClass(text, nameStart, NameChar)
                    gt      == IndexOf(text, ">", nameEnd)
                IN  IF gt = -1 THEN Null
                    ELSE [index |-> i, end |-> gt + 1,
                          nameStart |-> nameStart, nameEnd |-> nameEnd]

\* the leftmost match at or after i, or Null
RECURSIVE TagSearch(_, _)
TagSearch(text, i) ==
  IF i >= Len(text) THEN Null
  ELSE IF TagMatchAt(text, i) # Null THEN TagMatchAt(text, i)
  ELSE TagSearch(text, i + 1)

\* a variant for a pattern without the g flag: exec begins at 0 whatever lastIndex is
TagExec_NoGlobal(text, from) == TagSearch(text, 0)

\* tagRegex.exec(text) with lastIndex = from: the leftmost match, or Null
RECURSIVE TagExec(_, _)
TagExec(text, from) ==
  IF from >= Len(text) THEN Null
  ELSE IF TagMatchAt(text, from) # Null THEN TagMatchAt(text, from)
  ELSE TagExec(text, from + 1)

\* match[0], match[1].toLowerCase(), match[2]
MatchFull(text, match) == Slice(text, match.index, match.end)

MatchName(text, match) == LowerName(Slice(text, match.nameStart, match.nameEnd))

MatchGroup2(text, match) == <<>>

\* a variant that trusts capture group 2 alone
IsSelfClose_Group2Only(text, match) == MatchGroup2(text, match) = <<"/">>

IsSelfClose(text, match) ==
  \/ MatchGroup2(text, match) = <<"/">>
  \/ EndsWith(MatchFull(text, match), <<"/", ">">>)

IsClose(text, match) == StartsWithAt(MatchFull(text, match), 0, <<"<", "/">>, FALSE)

\* a variant that asks for the self-closing forms before the close form
TokenType_SelfCloseFirst(text, match) ==
  IF IsSelfClose(text, match) \/ MatchName(text, match) \in VOID_ELEMENTS
  THEN "self-closing"
  ELSE IF IsClose(text, match) THEN "close" ELSE "open"

\* the type given to a match that is not skipped
TokenType(text, match) ==
  IF IsClose(text, match) THEN "close"
  ELSE IF IsSelfClose(text, match) \/ MatchName(text, match) \in VOID_ELEMENTS
       THEN "self-closing"
       ELSE "open"

\* whether a match outside skip state opens a raw-text span
StartsSkip(text, match) ==
  ~IsClose(text, match) /\ MatchName(text, match) \in SKIP_CONTENT_TAGS

\* whether a match inside skip state ends it
\* a variant that lets any close tag end the skip
EndsSkip_AnyClose(text, match, until) == IsClose(text, match)

EndsSkip(text, match, until) ==
  IsClose(text, match) /\ MatchName(text, match) = until

\* a variant that takes the start of the name for the offset of the tag
MakeToken_NameOffset(text, match) ==
  [type |-> TokenType(text, match), name |-> MatchName(text, match),
   offset |-> match.nameStart, length |-> Len(MatchFull(text, match))]

MakeToken(text, match) ==
  [type |-> TokenType(text, match), name |-> MatchName(text, match),
   offset |-> match.index, length |-> Len(MatchFull(text, match))]

-----------------------------------------------------------------------------
(* parser.js: analyzeDocument, one step at a time *)

Region == regions[ri + 1]

\* tagRegex.exec(text) of the current iteration of tokenizeTags' loop
CurrentMatch == TagExec(Region.text, lastIndex)

\* variants of the guard that are off by one, either way
HasParent_TwoFrames(st) == Len(st) > 1

HasParent_Always(st) == Len(st) >= 0

\* stack.length > 0
HasParent(st) == Len(st) > 0

\* a variant that reads the outermost frame
TopFrame_Outermost(st) == IF Len(st) = 0 THEN Undefined ELSE st[1]

\* stack[stack.length - 1]
TopFrame(st) == IF Len(st) = 0 THEN Undefined ELSE st[Len(st)]

\* a variant that takes every token that is not a close tag for an open tag
IsOpenToken_NotClose(token) == token.type # "close"

\* token.type === "open"
IsOpenToken(token) == token.type = "open"

\* a variant that builds the key the other way round
LookupKey_Swapped(parent, child) == RuleKey(child, parent)

\* const key = `${parent}::${token.name}`
LookupKey(parent, child) == RuleKey(parent, child)

\* a variant that leaves a reported child off the stack
PushFrame_UnlessReported(st, token) ==
  IF HasParent(st) /\ MapGet(RULES_MAP, LookupKey(TopFrame(st).name, token.name)) # Undefined
  THEN st
  ELSE Append(st, [name |-> token.name, offset |-> token.offset])

\* stack.push({ name: token.name, offset: token.offset })
PushFrame(st, token) == Append(st, [name |-> token.name, offset |-> token.offset])

\* a variant that searches from the bottom of the stack: the outermost frame named name
NearestFrame_Outermost(st, name, i) ==
  LET named == {k \in 1..i : st[k].name = name}
  IN  IF named = {} THEN 0 ELSE CHOOSE k \in named : \A j \in named : k <= j

\* the index i at which the close loop stops for name (0 when it finds none)
RECURSIVE NearestFrame(_, _, _)
NearestFrame(st, name, i) ==
  IF i < 1 THEN 0
  ELSE IF st[i].name = name THEN i
  ELSE NearestFrame(st, name, i - 1)

\* stack.splice(i) for the found frame; the stack unchanged when none is found
CloseFrames(st, name) ==
  LET i == NearestFrame(st, name, Len(st))
  IN  IF i = 0 THEN st ELSE SubSeq(st, 1, i - 1)

\* a variant that leaves the offset local to the region
Translate_Local(err, region) ==
  [parent |-> err.parent, child |-> err.child, offset |-> err.offset,
   length |-> err.length, rule |-> err.rule,
   absoluteOffset |-> err.offset]

\* {...err, absoluteOffset: err.offset + region.baseOffset}
Translate(err, region) ==
  [parent |-> err.parent, child |-> err.child, offset |-> err.offset,
   length |-> err.length, rule |-> err.rule,
   absoluteOffset |-> err.offset + region.baseOffset]

\* a variant that puts the errors of a region before those already collected
PushAll_Front(all, errs, region) ==
  [k \in 1..Len(errs) |-> Translate(errs[k], region)] \o all

\* for (const err of errors) allErrors.push({...err, absoluteOffset: ...})
PushAll(all, errs, region) ==
  all \o [k \in 1..Len(errs) |-> Translate(errs[k], region)]

\* tokenizeTags' while loop from tagRegex.lastIndex = from on, as a function
RECURSIVE TokenizeFrom(_, _, _, _)
TokenizeFrom(text, from, skip, toks) ==
  LET match == TagExec(text, from)
  IN  IF match = Null THEN toks
      ELSE IF skip # NoSkip
      THEN TokenizeFrom(text, match.end,
                        IF EndsSkip(text, match, skip) THEN NoSkip ELSE skip, toks)
      ELSE IF StartsSkip(text, match)
      THEN TokenizeFrom(text, match.end, MatchName(text, match), toks)
      ELSE TokenizeFrom(text, match.end, skip, Append(toks, MakeToken(text, match)))

\* tokenizeTags(text)
tokenizeTags(text) == TokenizeFrom(text, 0, NoSkip, <<>>)

\* findNestingErrors' for loop from the token of index i (0-based) on, as a function
RECURSIVE CheckFrom(_, _, _, _)
CheckFrom(toks, i, st, errs) ==
  IF i >= Len(toks) THEN errs
  ELSE LET token == toks[i + 1]
       IN  IF IsOpenToken(token)
           THEN IF HasParent(st)
                THEN LET parent == TopFrame(st).name
                         rule   == MapGet(RULES_MAP, LookupKey(parent, token.name))
                     IN  CheckFrom(toks, i + 1, PushFrame(st, token),
                                   IF rule # Undefined
                                   THEN Append(errs,
                                               [parent |-> parent, child |-> token.name,
                                                offset |-> token.offset,
                                                length |-> token.length, rule |-> rule])
                                   ELSE errs)
                ELSE CheckFrom(toks, i + 1, PushFrame(st, token), errs)
           ELSE IF token.type = "close"
           THEN CheckFrom(toks, i + 1, CloseFrames(st, token.name), errs)
           ELSE CheckFrom(toks, i + 1, st, errs)

\* findNestingErrors(tokens)
findNestingErrors(toks) == CheckFrom(toks, 0, <<>>, <<>>)

\* allErrors after analyzeDocument's for..of loop has taken the first k regions
RECURSIVE AnalyzeRegions(_, _)
AnalyzeRegions(regs, k) ==
  IF k < 1 THEN <<>>
  ELSE PushAll(AnalyzeRegions(regs, k - 1),
               findNestingErrors(tokenizeTags(regs[k].text)), regs[k])

\* analyzeDocument(content, languageId), as a function of its arguments
analyzeDocument(text, lang) ==
  LET regs == extractMarkupRegions(text, lang)
  IN  AnalyzeRegions(regs, Len(regs))

\* no second call is suspended
NoCall == [nocall |-> TRUE]

\* const regions = extractMarkupRegions(content, languageId)
ExtractRegions ==
  /\ pc = "start"
  /\ regions' = extractMarkupRegions(content, languageId)
  /\ ri' = 0
  /\ pc' = "region"
  /\ UNCHANGED <<content, languageId, lastIndex, skipUntil, tokens, ti, stack,
                 errors, allErrors, threw>>
  /\ UNCHANGED outer

\* for (const region of regions): tokenizeTags(region.text) begins
BeginRegion ==
  /\ pc = "region"
  /\ ri < Len(regions)
  /\ lastIndex' = 0
  /\ skipUntil' = NoSkip
  /\ tokens' = <<>>
  /\ pc' = "tokenize"
  /\ UNCHANGED <<content, languageId, regions, ri, ti, stack, errors, allErrors, threw>>
  /\ UNCHANGED outer

\* one iteration of tokenizeTags' while loop
TokenizeStep ==
  /\ pc = "tokenize"
  /\ CurrentMatch # Null
  /\ LET text  == Region.text
         match == CurrentMatch
     IN  /\ lastIndex' = match.end
         /\ IF skipUntil # NoSkip
            THEN /\ skipUntil' = IF EndsSkip(text, match, skipUntil) THEN NoSkip ELSE skipUntil
                 /\ tokens' = tokens
            ELSE IF StartsSkip(text, match)
                 THEN /\ skipUntil' = MatchName(text, match)
                      /\ tokens' = tokens
                 ELSE /\ skipUntil' = skipUntil
                      /\ tokens' = Append(tokens, MakeToken(text, match))
  /\ UNCHANGED <<content, languageId, pc, regions, ri, ti, stack, errors, allErrors, threw>>
  /\ UNCHANGED outer

\* tagRegex.exec returns null: tokenizeTags returns, findNestingErrors begins
TokenizeEnd ==
  /\ pc = "tokenize"
  /\ CurrentMatch = Null
  /\ lastIndex' = 0
  /\ ti' = 0
  /\ stack' = <<>>
  /\ errors' = <<>>
  /\ pc' = "check"
  /\ UNCHANGED <<content, languageId, regions, ri, skipUntil, tokens, allErrors, threw>>
  /\ UNCHANGED outer

\* one iteration of findNestingErrors' for loop
CheckToken ==
  /\ pc = "check"
  /\ ti < Len(tokens)
  /\ LET token == tokens[ti + 1]
     IN  IF IsOpenToken(token)
         THEN IF HasParent(stack)
              THEN IF TopFrame(stack) = Undefined
                   THEN \* reading .name of undefined raises a TypeError
                        /\ threw' = TRUE
                        /\ pc' = "thrown"
                        /\ UNCHANGED <<stack, errors, ti>>
                   ELSE LET parent == TopFrame(stack).name
                            rule   == MapGet(RULES_MAP, LookupKey(parent, token.name))
                        IN  /\ errors' =
                                 IF rule # Undefined
                                 THEN Append(errors,
                                             [parent |-> parent, child |-> token.name,
                                              offset |-> token.offset,
                                              length |-> token.length, rule |-> rule])
                                 ELSE errors
                            /\ stack' = PushFrame(stack, token)
                            /\ ti' = ti + 1
                            /\ UNCHANGED <<pc, threw>>
              ELSE /\ stack' = PushFrame(stack, token)
                   /\ ti' = ti + 1
                   /\ UNCHANGED <<errors, pc, threw>>
         ELSE IF token.type = "close"
              THEN /\ stack' = CloseFrames(stack, token.name)
                   /\ ti' = ti + 1
                   /\ UNCHANGED <<errors, pc, threw>>
              ELSE /\ ti' = ti + 1
                   /\ UNCHANGED <<stack, errors, pc, threw>>
  /\ UNCHANGED <<content, languageId, regions, ri, lastIndex, skipUntil, tokens, allErrors>>
  /\ UNCHANGED outer

\* findNestingErrors returns: its errors are pushed with their absolute offsets
CollectErrors ==
  /\ pc = "check"
  /\ ti = Len(tokens)
  /\ allErrors' = PushAll(allErrors, errors, Region)
  /\ ri' = ri + 1
  /\ pc' = "region"
  /\ UNCHANGED <<content, languageId, regions, lastIndex, skipUntil, tokens, ti,
                 stack, errors, threw>>
  /\ UNCHANGED outer

\* return allErrors
Return ==
  /\ pc = "region"
  /\ ri = Len(regions)
  /\ pc' = "done"
  /\ UNCHANGED <<content, languageId, regions, ri, lastIndex, skipUntil, tokens, ti,
                 stack, errors, allErrors, threw>>
  /\ UNCHANGED outer

Next ==
  \/ ExtractRegions
  \/ BeginRegion
  \/ TokenizeStep
  \/ TokenizeEnd
  \/ CheckToken
  \/ CollectErrors
  \/ Return

-----------------------------------------------------------------------------
(* The documents and dialects analysed *)

\* the longest run of fragments a generated document is made of
MaxFrags == 3

\* the characters of each catalog tag name
TagChars ==
    "a" :> <<"a">> @@
    "abbr" :> <<"a", "b", "b", "r">> @@
    "address" :> <<"a", "d", "d", "r", "e", "s", "s">> @@
    "area" :> <<"a", "r", "e", "a">> @@
    "article" :> <<"a", "r", "t", "i", "c", "l", "e">> @@
    "aside" :> <<"a", "s", "i", "d", "e">> @@
    "audio" :> <<"a", "u", "d", "i", "o">> @@
    "b" :> <<"b">> @@
    "base" :> <<"b", "a", "s", "e">> @@
    "bdi" :> <<"b", "d", "i">> @@
    "bdo" :> <<"b", "d", "o">> @@
    "blockquote" :> <<"b", "l", "o", "c", "k", "q", "u", "o", "t", "e">> @@
    "body" :> <<"b", "o", "d", "y">> @@
    "br" :> <<"b", "r">> @@
    "button" :> <<"b", "u", "t", "t", "o", "n">> @@
    "canvas" :> <<"c", "a", "n", "v", "a", "s">> @@
    "caption" :> <<"c", "a", "p", "t", "i", "o", "n">> @@
    "cite" :> <<"c", "i", "t", "e">> @@
    "code" :> <<"c", "o", "d", "e">> @@
    "col" :> <<"c", "o", "l">> @@
    "colgroup" :> <<"c", "o", "l", "g", "r", "o", "u", "p">> @@
    "data" :> <<"d", "a", "t", "a">> @@
    "datalist" :> <<"d", "a", "t", "a", "l", "i", "s", "t">> @@
    "dd" :> <<"d", "d">> @@
    "del" :> <<"d", "e", "l">> @@
    "details" :> <<"d", "e", "t", "a", "i", "l", "s">> @@
    "dfn" :> <<"d", "f", "n">> @@
    "dialog" :> <<"d", "i", "a", "l", "o", "g">> @@
    "div" :> <<"d", "i", "v">> @@
    "dl" :> <<"d", "l">> @@
    "dt" :> <<"d", "t">> @@
    "em" :> <<"e", "m">> @@
    "embed" :> <<"e", "m", "b", "e", "d">> @@
    "fieldset" :> <<"f", "i", "e", "l", "d", "s", "e", "t">> @@
    "figcaption" :> <<"f", "i", "g", "c", "a", "p", "t", "i", "o", "n">> @@
    "figure" :> <<"f", "i", "g", "u", "r", "e">> @@
    "footer" :> <<"f", "o", "o", "t", "e", "r">> @@
    "form" :> <<"f", "o", "r", "m">> @@
    "h1" :> <<"h", "1">> @@
    "h2" :> <<"h", "2">> @@
    "h3" :> <<"h", "3">> @@
    "h4" :> <<"h", "4">> @@
    "h5" :> <<"h", "5">> @@
    "h6" :> <<"h", "6">> @@
    "head" :> <<"h", "e", "a", "d">> @@
    "header" :> <<"h", "e", "a", "d", "e", "r">> @@
    "hgroup" :> <<"h", "g", "r", "o", "u", "p">> @@
    "hr" :> <<"h", "r">> @@
    "html" :> <<"h", "t", "m", "l">> @@
    "i" :> <<"i">> @@
    "iframe" :> <<"i", "f", "r", "a", "m", "e">> @@
    "img" :> <<"i", "m", "g">> @@
    "input" :> <<"i", "n", "p", "u", "t">> @@
    "ins" :> <<"i", "n", "s">> @@
    "kbd" :> <<"k", "b", "d">> @@
    "label" :> <<"l", "a", "b", "e", "l">> @@
    "legend" :> <<"l", "e", "g", "e", "n", "d">> @@
    "li" :> <<"l", "i">> @@
    "link" :> <<"l", "i", "n", "k">> @@
    "main" :> <<"m", "a", "i", "n">> @@
    "map" :> <<"m", "a", "p">> @@
    "mark" :> <<"m", "a", "r", "k">> @@
    "menu" :> <<"m", "e", "n", "u">> @@
    "meta" :> <<"m", "e", "t", "a">> @@
    "meter" :> <<"m", "e", "t", "e", "r">> @@
    "nav" :> <<"n", "a", "v">> @@
    "noscript" :> <<"n", "o", "s", "c", "r", "i", "p", "t">> @@
    "object" :> <<"o", "b", "j", "e", "c", "t">> @@
    "ol" :> <<"o", "l">> @@
    "optgroup" :> <<"o", "p", "t", "g", "r", "o", "u", "p">> @@
    "option" :> <<"o", "p", "t", "i", "o", "n">> @@
    "output" :> <<"o", "u", "t", "p", "u", "t">> @@
    "p" :> <<"p">> @@
    "param" :> <<"p", "a", "r", "a", "m">> @@
    "picture" :> <<"p", "i", "c", "t", "u", "r", "e">> @@
    "pre" :> <<"p", "r", "e">> @@
    "progress" :> <<"p", "r", "o", "g", "r", "e", "s", "s">> @@
    "q" :> <<"q">> @@
    "rp" :> <<"r", "p">> @@
    "rt" :> <<"r", "t">> @@
    "ruby" :> <<"r", "u", "b", "y">> @@
    "s" :> <<"s">> @@
    "samp" :> <<"s", "a", "m", "p">> @@
    "script" :> <<"s", "c", "r", "i", "p", "t">> @@
    "search" :> <<"s", "e", "a", "r", "c", "h">> @@
    "section" :> <<"s", "e", "c", "t", "i", "o", "n">> @@
    "select" :> <<"s", "e", "l", "e", "c", "t">> @@
    "slot" :> <<"s", "l", "o", "t">> @@
    "small" :> <<"s", "m", "a", "l", "l">> @@
    "source" :> <<"s", "o", "u", "r", "c", "e">> @@
    "span" :> <<"s", "p", "a", "n">> @@
    "strong" :> <<"s", "t", "r", "o", "n", "g">> @@
    "style" :> <<"s", "t", "y", "l", "e">> @@
    "sub" :> <<"s", "u", "b">> @@
    "summary" :> <<"s", "u", "m", "m", "a", "r", "y">> @@
    "sup" :> <<"s", "u", "p">> @@
    "table" :> <<"t", "a", "b", "l", "e">> @@
    "tbody" :> <<"t", "b", "o", "d", "y">> @@
    "td" :> <<"t", "d">> @@
    "template" :> <<"t", "e", "m", "p", "l", "a", "t", "e">> @@
    "textarea" :> <<"t", "e", "x", "t", "a", "r", "e", "a">> @@
    "tfoot" :> <<"t", "f", "o", "o", "t">> @@
    "th" :> <<"t", "h">> @@
    "thead" :> <<"t", "h", "e", "a", "d">> @@
    "time" :> <<"t", "i", "m", "e">> @@
    "title" :> <<"t", "i", "t", "l", "e">> @@
    "tr" :> <<"t", "r">> @@
    "track" :> <<"t", "r", "a", "c", "k">> @@
    "u" :> <<"u">> @@
    "ul" :> <<"u", "l">> @@
    "var" :> <<"v", "a", "r">> @@
    "video" :> <<"v", "i", "d", "e", "o">> @@
    "wbr" :> <<"w", "b", "r">>

\* two tag names outside the catalog: a legacy element and a custom element
OtherTagChars ==
    "center" :> <<"c", "e", "n", "t", "e", "r">> @@
    "my-widget" :> <<"m", "y", "-", "w", "i", "d", "g", "e", "t">>

NameChars == TagChars @@ OtherTagChars

OpenTag(name) == <<"<">> \o NameChars[name] \o <<">">>

CloseTag(name) == <<"<", "/">> \o NameChars[name] \o <<">">>

SelfClosedTag(name) == <<"<">> \o NameChars[name] \o <<"/", ">">>

RECURSIVE Concat(_)
Concat(parts) == IF parts = <<>> THEN <<>> ELSE Head(parts) \o Concat(Tail(parts))

\* every concatenation of at most MaxFrags fragments of frags
TextsOf(frags) ==
  {Concat(parts) : parts \in UNION {[1..n -> frags] : n \in 0..MaxFrags}}

\* <Table>, a component written with a leading capital
UpperTable == <<"<", "T", "a", "b", "l", "e", ">">>

\* </Table>
UpperTableClose == <<"<", "/", "T", "a", "b", "l", "e", ">">>

\* <p><div>, a forbidden pair
PDiv == OpenTag("p") \o OpenTag("div")

\* <form><form>, a forbidden pair
FormForm == OpenTag("form") \o OpenTag("form")

\* plain markup: open, close, self-closed and void tags, a raw-text element, a
\* component tag, a stray < and a tag that is not terminated
MarkupFrags ==
  {OpenTag("p"), CloseTag("p"), OpenTag("div"), CloseTag("div"), SelfClosedTag("div"),
   OpenTag("select"), OpenTag("input"), OpenTag("script"), CloseTag("script"),
   UpperTable, <<"<">>, <<"<", "d", " ">>}

\* "return ("
ReturnParen == <<"r", "e", "t", "u", "r", "n", " ", "(">>

\* component syntax: return blocks, parentheses, text and tags
JsxFrags ==
  {ReturnParen, <<"(">>, <<")">>, <<"x">>, PDiv, OpenTag("p"), SelfClosedTag("div"),
   CloseTag("p"), UpperTable}

\* <TEMPLATE x>
UpperTemplate == <<"<", "T", "E", "M", "P", "L", "A", "T", "E", " ", "x", ">">>

\* template-wrapped documents: template tags in both cases, an opening tag that is
\* not terminated, a lone >, and forbidden pairs inside or outside the block
TemplateFrags ==
  {OpenTag("template"), CloseTag("template"), UpperTemplate, TemplateOpen, <<">">>,
   FormForm, PDiv, CloseTag("form"), OpenTag("div")}

\* what stands between <p><script> and </script></p> in RawTextInputs
RawFrags ==
  {OpenTag("div"), CloseTag("div"), OpenTag("p"), CloseTag("p"), OpenTag("script"),
   CloseTag("style"), <<"<", "d", " ">>, <<"x">>}

RawTextOf(raw, inner) ==
  Concat(<<OpenTag("p"), OpenTag(raw), inner, CloseTag(raw), CloseTag("p")>>)

\* <p><script>...</script></p> and <p><style>...</style></p>
RawTextInputs ==
  {RawTextOf(raw, inner) : raw \in {"script", "style"}, inner \in TextsOf(RawFrags)}

\* "function X(){ return ( " and " ); }"
FunctionHead ==
  <<"f", "u", "n", "c", "t", "i", "o", "n", " ", "X", "(", ")", "{", " ">>
  \o ReturnParen \o <<" ">>

FunctionTail == <<" ", ")", ";", " ", "}">>

\* function X(){ return ( <div><p><div/></p></div> ); }
ReturnExample ==
  FunctionHead
  \o Concat(<<OpenTag("div"), OpenTag("p"), SelfClosedTag("div"), CloseTag("p"),
              CloseTag("div")>>)
  \o FunctionTail

\* function X(){ return ( <div><p><div></div></p></div> ); }
ReturnExampleOpen ==
  FunctionHead
  \o Concat(<<OpenTag("div"), OpenTag("p"), OpenTag("div"), CloseTag("div"),
              CloseTag("p"), CloseTag("div")>>)
  \o FunctionTail

\* <template><form><form></form></form></template>
TemplateExample ==
  Concat(<<OpenTag("template"), FormForm, CloseTag("form"), CloseTag("form"),
           CloseTag("template")>>)

\* <p><div></div></p><template><form><form></form></form></template><p><div>
TemplateExampleOutside ==
  Concat(<<PDiv, CloseTag("div"), CloseTag("p"), TemplateExample, PDiv>>)

\* <select><input/></select>
SelectExample ==
  Concat(<<OpenTag("select"), SelfClosedTag("input"), CloseTag("select")>>)

\* <a><span><a></a></span></a>
AnchorExample ==
  Concat(<<OpenTag("a"), OpenTag("span"), OpenTag("a"), CloseTag("a"), CloseTag("span"),
           CloseTag("a")>>)

\* <p><script><div></script></p>
ScriptExample == RawTextOf("script", OpenTag("div"))

\* <p><style>div{}</style></p>
StyleExample == RawTextOf("style", <<"d", "i", "v", "{", "}">>)

\* <Table><div></div></Table>
ComponentExample ==
  Concat(<<UpperTable, OpenTag("div"), CloseTag("div"), UpperTableClose>>)

\* <div><span></div>
UnbalancedExample == Concat(<<OpenTag("div"), OpenTag("span"), CloseTag("div")>>)

\* <div></br></p/><BR><input/><Img x="/">
CloseVoidExample ==
  Concat(<<OpenTag("div"), CloseTag("br"), <<"<", "/", "p", "/", ">">>,
           <<"<", "B", "R", ">">>, SelfClosedTag("input"),
           <<"<", "I", "m", "g", " ", "x", "=", "\"", "/", "\"", ">">>>>)

\* return (<div>{f(() => { return (<p><div></div></p>) })}</div>)
NestedReturnExample ==
  Concat(<<ReturnParen, OpenTag("div"), <<"{", "f", "(", "(", ")", " ", "=", ">", " ", "{", " ">>,
           ReturnParen, PDiv, CloseTag("div"), CloseTag("p"),
           <<")", " ", "}", ")", "}">>, CloseTag("div"), <<")">>>>)

\* <a><input></a><button><input></button><p><hr></p><html><script></script></html>
NeverOpenExample ==
  Concat(<<OpenTag("a"), OpenTag("input"), CloseTag("a"),
           OpenTag("button"), OpenTag("input"), CloseTag("button"),
           OpenTag("p"), OpenTag("hr"), CloseTag("p"),
           OpenTag("html"), OpenTag("script"), CloseTag("script"), CloseTag("html")>>)

\* <script src="x" />
SelfClosedScript ==
  <<"<", "s", "c", "r", "i", "p", "t", " ", "s", "r", "c", "=", "\"", "x", "\"", " ",
    "/", ">">>

\* <p><script src="x" /><div>
SelfClosedScriptExample == Concat(<<OpenTag("p"), SelfClosedScript, OpenTag("div")>>)

Examples ==
  {ReturnExample, ReturnExampleOpen, TemplateExample, TemplateExampleOutside,
   SelectExample, AnchorExample, ScriptExample, StyleExample, ComponentExample,
   UnbalancedExample, CloseVoidExample, NestedReturnExample, NeverOpenExample,
   SelfClosedScriptExample}

PlainDialects == {"html", "html-angular", "plaintext"}

JsxDialects == {"javascriptreact", "typescriptreact"}

TemplateDialects == {"vue", "svelte"}

Dialects == PlainDialects \cup JsxDialects \cup TemplateDialects

Inputs ==
  (TextsOf(MarkupFrags) \X {"html"})
  \cup (RawTextInputs \X {"html-angular"})
  \cup (TextsOf(JsxFrags) \X {"javascriptreact"})
  \cup (TextsOf(TemplateFrags) \X {"vue"})
  \cup (Examples \X Dialects)

InitLocals(inputs) ==
  /\ \E in \in inputs : content = in[1] /\ languageId = in[2]
  /\ pc = "start"
  /\ regions = <<>>
  /\ ri = 0
  /\ lastIndex = 0
  /\ skipUntil = NoSkip
  /\ tokens = <<>>
  /\ ti = 0
  /\ stack = <<>>
  /\ errors = <<>>
  /\ allErrors = <<>>
  /\ threw = FALSE

\* analyzeDocument is called directly: the extension is not activated and the editor
\* holds no document
NoEditor ==
  /\ activated = "inactive"
  /\ config = [enable |-> TRUE, severity |-> "error"]
  /\ documents = <<>>
  /\ activeTextEditor = ""
  /\ diagnosticCollection = Undefined
  /\ debounceTimer = Undefined
  /\ validations = {}

\* one call, which has not taken a step yet
InitWith(inputs) ==
  /\ InitLocals(inputs)
  /\ calls = 1
  /\ returned = {}
  /\ other = NoCall
  /\ NoEditor

Init == InitWith(Inputs)

Spec == Init /\ [][Next]_vars

\* the tag names of the documents <P><C></C></P>
PairTags == HTML_TAGS_SET \cup DOMAIN OtherTagChars

\* <P><C></C></P>
PairText(P, C) == Concat(<<OpenTag(P), OpenTag(C), CloseTag(C), CloseTag(P)>>)

\* <P><C>text</C></P>
PairTextWithText(P, C) ==
  Concat(<<OpenTag(P), OpenTag(C), <<"t", "e", "x", "t">>, CloseTag(C), CloseTag(P)>>)

PairInputs ==
  {<<PairText(pair[1], pair[2]), "html">> : pair \in PairTags \X PairTags}
  \cup {<<PairTextWithText(pair[1], pair[2]), "html">> : pair \in PairTags \X PairTags}

InitPairs == InitWith(PairInputs)

SpecPairs == InitPairs /\ [][Next]_vars

-----------------------------------------------------------------------------
-----------------------------------------------------------------------------
(* extension.js: the editor's events and the diagnostics published; the
   pictographs that open the messages are left out *)

DIAGNOSTIC_SOURCE == "HTML Nesting Validator"

SUPPORTED_LANGUAGES ==
  {"html", "javascriptreact", "typescriptreact", "vue", "svelte", "html-angular"}

\* isSupported(doc)
isSupported(doc) ==
  IF ~config.enable THEN FALSE ELSE doc.languageId \in SUPPORTED_LANGUAGES

\* getSeverity()
getSeverity ==
  CASE config.severity = "warning" -> "Warning"
    [] config.severity = "info" -> "Information"
    [] OTHER -> "Error"

\* doc.positionAt(offset) from the position pos of index i on
RECURSIVE PositionFrom(_, _, _, _)
PositionFrom(text, i, offset, pos) ==
  IF i >= offset \/ i >= Len(text) THEN pos
  ELSE PositionFrom(text, i + 1, offset,
                    IF At(text, i) = "\n"
                    THEN [line |-> pos.line + 1, character |-> 0]
                    ELSE [line |-> pos.line, character |-> pos.character + 1])

\* doc.positionAt(offset): the line and the column of the offset
positionAt(text, offset) == PositionFrom(text, 0, offset, [line |-> 0, character |-> 0])

\* Array.prototype.join
RECURSIVE Join(_, _)
Join(strings, separator) ==
  IF strings = <<>> THEN ""
  ELSE IF Len(strings) = 1 THEN strings[1]
  ELSE strings[1] \o separator \o Join(Tail(strings), separator)

\* buildMessage(parent, child, reason)
buildMessage(parent, child, reason) ==
  "<" \o child \o "> no puede estar dentro de <" \o parent \o ">. " \o reason

\* buildRelatedInfo(doc, range, err)
buildRelatedInfo(uri, range, err) ==
  LET location == [uri |-> uri, range |-> range]
  IN  (IF Len(err.rule.alternatives) > 0
       THEN <<[location |-> location,
               message |-> "Alternativas: " \o Join(err.rule.alternatives, " | ")]>>
       ELSE <<>>)
      \o [i \in 1..Len(err.rule.references) |->
            [location |-> location,
             message |-> err.rule.references[i].label \o ": "
                           \o err.rule.references[i].url]]

\* the diagnostic that validateDocument builds for one violation
DiagnosticOf(uri, text, err) ==
  LET range == [start |-> positionAt(text, err.absoluteOffset),
                end |-> positionAt(text, err.absoluteOffset + err.length)]
  IN  [range |-> range,
       message |-> buildMessage(err.parent, err.child, err.rule.reason),
       severity |-> getSeverity,
       source |-> DIAGNOSTIC_SOURCE,
       code |-> [value |-> err.parent \o "-no-" \o err.child,
                 target |-> IF Len(err.rule.references) > 0
                            THEN err.rule.references[1].url
                            ELSE "https://developer.mozilla.org/es/docs/Web/HTML"],
       relatedInformation |-> buildRelatedInfo(uri, range, err)]

\* the documents of the editor
Uris == {"file:///a", "file:///b"}

\* <p>, a line break, <div>: a violation on the second line
PDivOnTwoLines == OpenTag("p") \o <<"\n">> \o OpenTag("div")

\* the texts a document can hold
DocTexts == {PDivOnTwoLines, OpenTag("div")}

\* the languages of the documents: one that is supported and one that is not
DocLanguages == {"html", "plaintext"}

\* analyzeDocument(content, doc.languageId) for the documents of the editor
Analyzed ==
  [text \in DocTexts, lang \in DocLanguages |-> analyzeDocument(text, lang)]

\* the diagnostics that validateDocument(doc) hands to diagnosticCollection.set
DiagnosticsOf(uri, doc) ==
  [k \in 1..Len(Analyzed[doc.text, doc.languageId]) |->
     DiagnosticOf(uri, doc.text, Analyzed[doc.text, doc.languageId][k])]

\* what is recorded of one validateDocument(doc) call: the document, its language and
\* the enable setting at the time of the call
ValidationOf(uri, doc) ==
  [uri |-> uri, enabled |-> config.enable, languageId |-> doc.languageId]

\* diagnosticCollection after validateDocument has run for each document of uris
AfterValidating(collection, docs, uris) ==
  [u \in (DOMAIN collection) \cup uris |->
     IF u \in uris THEN DiagnosticsOf(u, docs[u]) ELSE collection[u]]

\* diagnosticCollection.delete(uri)
AfterDelete(collection, uri) == [u \in (DOMAIN collection) \ {uri} |-> collection[u]]

\* the empty collection
NoDiagnostics == [u \in {} |-> <<>>]

\* vscode.workspace.textDocuments
OpenDocuments == {u \in DOMAIN documents : ~documents[u].isClosed}

\* vscode.window.activeTextEditor is undefined
NoTextEditor == ""

\* the settings
Configurations == [enable : BOOLEAN, severity : {"error", "warning", "info"}]

\* activate(context)
Activate ==
  /\ activated = "inactive"
  /\ LET first  == IF activeTextEditor # NoTextEditor THEN {activeTextEditor} ELSE {}
         others == {u \in OpenDocuments : isSupported(documents[u])}
     IN  /\ diagnosticCollection' =
              AfterValidating(NoDiagnostics, documents, first \cup others)
         /\ validations' =
              validations \cup {ValidationOf(u, documents[u]) : u \in first \cup others}
  /\ activated' = "active"
  /\ UNCHANGED <<config, documents, activeTextEditor, debounceTimer>>
  /\ UNCHANGED <<locals, calls, returned, other>>

\* a document is opened; onDidOpenTextDocument's handler runs if it is registered
OpenTextDocument ==
  /\ \E u \in DOMAIN documents, text \in DocTexts :
       /\ documents[u].isClosed
       /\ LET doc == [documents[u] EXCEPT !.isClosed = FALSE, !.text = text]
          IN  /\ documents' = [documents EXCEPT ![u] = doc]
              /\ IF activated = "active" /\ isSupported(doc)
                 THEN /\ diagnosticCollection' =
                           AfterValidating(diagnosticCollection, documents', {u})
                      /\ validations' = validations \cup {ValidationOf(u, doc)}
                 ELSE UNCHANGED <<diagnosticCollection, validations>>
  /\ UNCHANGED <<activated, config, activeTextEditor, debounceTimer>>
  /\ UNCHANGED <<locals, calls, returned, other>>

\* a document is edited; onDidChangeTextDocument's handler runs if it is registered:
\* debounce(() => validateDocument(event.document), 300)
ChangeTextDocument ==
  /\ \E u \in OpenDocuments, text \in DocTexts :
       /\ text # documents[u].text
       /\ documents' = [documents EXCEPT ![u].text = text]
       /\ debounceTimer' =
            IF activated = "active" /\ isSupported(documents[u])
            THEN [document |-> u, pending |-> TRUE]
            ELSE debounceTimer
  /\ UNCHANGED <<activated, config, activeTextEditor, diagnosticCollection, validations>>
  /\ UNCHANGED <<locals, calls, returned, other>>

\* the timeout set by debounce expires: validateDocument(event.document) runs; a
\* collection that deactivate has disposed of rejects the set
DebounceTimeout ==
  /\ debounceTimer # Undefined
  /\ debounceTimer.pending
  /\ LET u == debounceTimer.document
     IN  /\ diagnosticCollection' =
              IF activated = "active"
              THEN AfterValidating(diagnosticCollection, documents, {u})
              ELSE diagnosticCollection
         /\ validations' = validations \cup {ValidationOf(u, documents[u])}
  /\ debounceTimer' = [debounceTimer EXCEPT !.pending = FALSE]
  /\ UNCHANGED <<activated, config, documents, activeTextEditor>>
  /\ UNCHANGED <<locals, calls, returned, other>>

\* a document is closed; onDidCloseTextDocument's handler runs if it is registered
CloseTextDocument ==
  /\ \E u \in OpenDocuments :
       /\ documents' = [documents EXCEPT ![u].isClosed = TRUE]
       /\ activeTextEditor' = IF activeTextEditor = u THEN NoTextEditor ELSE activeTextEditor
       /\ diagnosticCollection' =
            IF activated = "active"
            THEN AfterDelete(diagnosticCollection, u)
            ELSE diagnosticCollection
  /\ UNCHANGED <<activated, config, debounceTimer, validations>>
  /\ UNCHANGED <<locals, calls, returned, other>>

\* the user edits settings.json
ChangeConfiguration ==
  /\ \E c \in Configurations : c # config /\ config' = c
  /\ UNCHANGED <<activated, documents, activeTextEditor, diagnosticCollection,
                 debounceTimer, validations>>
  /\ UNCHANGED <<locals, calls, returned, other>>

\* deactivate()
Deactivate ==
  /\ activated = "active"
  /\ activated' = "deactivated"
  /\ diagnosticCollection' = NoDiagnostics
  /\ UNCHANGED <<config, documents, activeTextEditor, debounceTimer, validations>>
  /\ UNCHANGED <<locals, calls, returned, other>>

NextExtension ==
  \/ Activate
  \/ OpenTextDocument
  \/ ChangeTextDocument
  \/ DebounceTimeout
  \/ CloseTextDocument
  \/ ChangeConfiguration
  \/ Deactivate

\* the editor before the extension is activated: documents open or closed, one of
\* the open ones possibly in the active editor, and the settings
InitExtension ==
  /\ InitLocals({<<<<>>, "html">>})
  /\ calls = 0
  /\ returned = {}
  /\ other = NoCall
  /\ activated = "inactive"
  /\ config \in Configurations
  /\ documents \in [Uris -> [text : DocTexts, languageId : DocLanguages,
                             isClosed : BOOLEAN]]
  /\ activeTextEditor \in OpenDocuments \cup {NoTextEditor}
  /\ diagnosticCollection = Undefined
  /\ debounceTimer = Undefined
  /\ validations = {}

SpecExtension == InitExtension /\ [][NextExtension]_vars

\* the event loop runs a timeout that is due: a timer that stays set does expire
FairSpecExtension ==
  InitExtension /\ [][NextExtension]_vars /\ WF_vars(DebounceTimeout)

(* Properties *)

\* every concatenation of two fragments of frags
PairsOf(frags) == {a \o b : a \in frags, b \in frags}

\* the documents of the runs under fairness
FairInputs ==
  (PairsOf(MarkupFrags) \X {"html"}) \cup (PairsOf(JsxFrags) \X {"javascriptreact"})
    \cup (PairsOf(TemplateFrags) \X {"svelte"}) \cup (Examples \X Dialects)

InitFair == InitWith(FairInputs)

\* analyzeDocument is synchronous code: once called, it runs until it returns
FairSpec == InitFair /\ [][Next]_vars /\ WF_vars(Next)

\* the number of analyzeDocument calls made one after the other
MaxCalls == 3

\* <p><script><div>: the tokenizer reaches the end of the text in skip state
UnclosedScriptExample == Concat(<<OpenTag("p"), OpenTag("script"), OpenTag("div")>>)

\* what the calls made one after the other are given
CallInputs ==
  {<<PDiv, "html">>, <<FormForm, "html-angular">>, <<UnbalancedExample, "html">>,
   <<UnclosedScriptExample, "html">>, <<ScriptExample, "html">>,
   <<ReturnExampleOpen, "javascriptreact">>, <<ReturnExampleOpen, "html">>,
   <<TemplateExampleOutside, "vue">>, <<TemplateExampleOutside, "plaintext">>}

\* a variant in which the list outlives the call
NewAllErrors_Kept(previous) == previous

\* const allErrors = []: a new list at every call
NewAllErrors(previous) == <<>>

\* the running call has returned and analyzeDocument is called again: its parameters
\* and allErrors are bound anew, every other local is declared further down the call
CallAgain ==
  /\ pc = "done"
  /\ calls < MaxCalls
  /\ other = NoCall
  /\ returned' = returned \cup {[content |-> content, languageId |-> languageId,
                                 result |-> allErrors]}
  /\ \E in \in CallInputs : content' = in[1] /\ languageId' = in[2]
  /\ allErrors' = NewAllErrors(allErrors)
  /\ pc' = "start"
  /\ calls' = calls + 1
  /\ UNCHANGED <<regions, ri, lastIndex, skipUntil, tokens, ti, stack, errors, threw,
                 other, editor>>

NextCalls ==
  \/ ExtractRegions
  \/ BeginRegion
  \/ TokenizeStep
  \/ TokenizeEnd
  \/ CheckToken
  \/ CollectErrors
  \/ Return
  \/ CallAgain

InitCalls == InitWith(CallInputs)

\* analyzeDocument called MaxCalls times, one call after the other
SpecCalls == InitCalls /\ [][NextCalls]_vars

\* the arguments and locals of the running call, as they are kept while it is
\* suspended
SavedLocals ==
  [content |-> content, languageId |-> languageId, pc |-> pc, regions |-> regions,
   ri |-> ri, lastIndex |-> lastIndex, skipUntil |-> skipUntil, tokens |-> tokens,
   ti |-> ti, stack |-> stack, errors |-> errors, allErrors |-> allErrors,
   threw |-> threw]

\* the arguments and locals of a call that has not taken a step yet
FreshCall(in) ==
  [content |-> in[1], languageId |-> in[2], pc |-> "start", regions |-> <<>>,
   ri |-> 0, lastIndex |-> 0, skipUntil |-> NoSkip, tokens |-> <<>>, ti |-> 0,
   stack |-> <<>>, errors |-> <<>>, allErrors |-> <<>>, threw |-> FALSE]

\* a variant for a pattern object that the calls share: the position is the one the
\* other call left
ResumedLastIndex_Shared(own, running) == running

\* const tagRegex = /.../g inside tokenizeTags: every call scans with its own
\* pattern object, so a resumed call finds the position it left
ResumedLastIndex(own, running) == own

\* the running call is suspended between two of its steps and the other call runs on
\* from where it was suspended
Switch ==
  /\ other # NoCall
  /\ pc # "done" \/ other.pc # "done"
  /\ other' = SavedLocals
  /\ content' = other.content
  /\ languageId' = other.languageId
  /\ pc' = other.pc
  /\ regions' = other.regions
  /\ ri' = other.ri
  /\ lastIndex' = ResumedLastIndex(other.lastIndex, lastIndex)
  /\ skipUntil' = other.skipUntil
  /\ tokens' = other.tokens
  /\ ti' = other.ti
  /\ stack' = other.stack
  /\ errors' = other.errors
  /\ allErrors' = other.allErrors
  /\ threw' = other.threw
  /\ UNCHANGED <<calls, returned, editor>>

NextInterleaved ==
  \/ ExtractRegions
  \/ BeginRegion
  \/ TokenizeStep
  \/ TokenizeEnd
  \/ CheckToken
  \/ CollectErrors
  \/ Return
  \/ Switch

\* two calls on two different documents, neither of which has taken a step
InitInterleaved ==
  /\ InitLocals(CallInputs)
  /\ calls = 2
  /\ returned = {}
  /\ NoEditor
  /\ \E in \in CallInputs : in[1] # content /\ other = FreshCall(in)

\* the steps of two analyzeDocument calls, interleaved in every possible way
SpecInterleaved == InitInterleaved /\ [][NextInterleaved]_vars

Done == pc = "done"

\* the characters of s as one string, unchanged
RECURSIVE StringOf(_)
StringOf(s) == IF s = <<>> THEN "" ELSE Head(s) \o StringOf(Tail(s))

\* the least index i >= from with text[i] = ch (text.length when there is none)
FirstAt(text, ch, from) ==
  LET hits == {i \in from..(Len(text) - 1) : At(text, i) = ch}
  IN  IF hits = {} THEN Len(text) ELSE CHOOSE i \in hits : \A j \in hits : i <= j

\* the names written in the first and in the second tag of the document
PairParent == StringOf(Slice(content, 1, FirstAt(content, ">", 0)))

PairChild ==
  LET gt == FirstAt(content, ">", 0)
  IN  StringOf(Slice(content, gt + 2, FirstAt(content, ">", gt + 1)))

\* the document is <P><C></C></P> for two of the pair tags
IsPairDocument ==
  /\ PairParent \in PairTags
  /\ PairChild \in PairTags
  /\ content = PairText(PairParent, PairChild)

\* the document is <P><C>text</C></P> for two of the pair tags
IsPairDocumentWithText ==
  /\ PairParent \in PairTags
  /\ PairChild \in PairTags
  /\ content = PairTextWithText(PairParent, PairChild)

InCatalog(parent, child) == RuleKey(parent, child) \in DOMAIN RULES_MAP

ExplicitIndexes(parent, child) ==
  {i \in DOMAIN NESTING_RULES :
     NESTING_RULES[i].parent = parent /\ NESTING_RULES[i].child = child}

GeneratedIndexes(parent, child) ==
  {i \in DOMAIN GENERATED_NESTING_RULES :
     /\ GENERATED_NESTING_RULES[i].parent = parent
     /\ GENERATED_NESTING_RULES[i].child = child}

\* C1: for a pair that has both an explicit and a generated rule, every violation
\* analyze returns carries the explicit rule's reason and alternatives.
C1_ExplicitRuleWins ==
  \A k \in DOMAIN allErrors :
    LET v == allErrors[k]
    IN  GeneratedIndexes(v.parent, v.child) # {} =>
          \A i \in ExplicitIndexes(v.parent, v.child) :
            /\ v.rule.reason = NESTING_RULES[i].reason
            /\ v.rule.alternatives = NESTING_RULES[i].alternatives

\* C2 as stated: for every catalog rule (P, C), analyze on <P><C></C></P> returns
\* exactly one violation, with parent P, child C and the catalog's rule.
C2_EveryRuleFires ==
  (Done /\ IsPairDocument /\ InCatalog(PairParent, PairChild)) =>
    /\ Len(allErrors) = 1
    /\ allErrors[1].parent = PairParent
    /\ allErrors[1].child = PairChild
    /\ allErrors[1].rule = RULES_MAP[RuleKey(PairParent, PairChild)]

NeverOpen == VOID_ELEMENTS \cup SKIP_CONTENT_TAGS

\* C2 as amended: the same for every catalog rule whose child is neither a void
\* element nor script, style or template; for a rule whose child is one of those,
\* analyze on <P><C></C></P> returns no violation.
C2_EveryOpenChildRuleFires ==
  (Done /\ IsPairDocument /\ InCatalog(PairParent, PairChild)) =>
    IF PairChild \in NeverOpen
    THEN allErrors = <<>>
    ELSE /\ Len(allErrors) = 1
         /\ allErrors[1].parent = PairParent
         /\ allErrors[1].child = PairChild
         /\ allErrors[1].rule = RULES_MAP[RuleKey(PairParent, PairChild)]

C2_Witness ==
  /\ Done
  /\ IsPairDocument
  /\ InCatalog(PairParent, PairChild)
  /\ PairChild \notin NeverOpen
  /\ Len(allErrors) = 1
  /\ allErrors[1].child = PairChild

\* the index of the first < after the first "return (" of the document
FirstLtAfterReturn ==
  LET at == CHOOSE i \in 0..Len(content) :
              /\ StartsWithAt(content, i, ReturnParen, FALSE)
              /\ \A j \in 0..(i - 1) : ~StartsWithAt(content, j, ReturnParen, FALSE)
  IN  FirstAt(content, "<", at + Len(ReturnParen))

IsPDivViolation(v) == v.parent = "p" /\ v.child = "div"

\* C3 as stated: for the component-syntax dialect and the document
\* function X(){ return ( <div><p><div/></p></div> ); } exactly one region is
\* extracted, starting at the first < after "return (", and analyze reports the
\* p > div violation.
C3_ReturnExampleReported ==
  (Done /\ languageId \in JsxDialects /\ content = ReturnExample) =>
    /\ Len(regions) = 1
    /\ regions[1].baseOffset = FirstLtAfterReturn
    /\ \E k \in DOMAIN allErrors : IsPDivViolation(allErrors[k])

\* C3 as amended: for that document exactly one region is extracted, starting at
\* the first < after "return (", and analyze reports no violation, the inner <div/>
\* being self-closing; with the inner div written <div></div> analyze reports exactly
\* the p > div violation, at the offset of that <div> in the document.
C3_ReturnExampleRegion ==
  /\ (Done /\ languageId \in JsxDialects /\ content = ReturnExample) =>
       /\ Len(regions) = 1
       /\ regions[1].baseOffset = FirstLtAfterReturn
       /\ At(content, regions[1].baseOffset) = "<"
       /\ allErrors = <<>>
  /\ (Done /\ languageId \in JsxDialects /\ content = ReturnExampleOpen) =>
       /\ Len(regions) = 1
       /\ regions[1].baseOffset = FirstLtAfterReturn
       /\ Len(allErrors) = 1
       /\ IsPDivViolation(allErrors[1])
       /\ allErrors[1].absoluteOffset =
            FirstLtAfterReturn + Len(OpenTag("div")) + Len(OpenTag("p"))
       /\ allErrors[1].length = Len(OpenTag("div"))

C3_Witness ==
  /\ Done
  /\ languageId = "javascriptreact"
  /\ content = ReturnExample
  /\ Len(regions) = 1
  /\ regions[1].baseOffset > 0
  /\ allErrors = <<>>

\* the token findNestingErrors is about to process
AtToken == pc = "check" /\ ti < Len(tokens)

CurrentToken == tokens[ti + 1]

\* every reported error is at the offset of an open token of the region
ErrorsAreOpenTokens ==
  pc = "check" =>
    \A k \in DOMAIN errors :
      \E n \in DOMAIN tokens :
        /\ tokens[n].type = "open"
        /\ tokens[n].offset = errors[k].offset
        /\ tokens[n].name = errors[k].child

\* C4: a self-closing token never changes the stack and is never reported as a
\* violating child, even when (current parent, its name) is a key of the RuleIndex;
\* <select><input/></select> yields no violation.
C4_SelfClosingIsNoOp ==
  /\ [][(AtToken /\ CurrentToken.type = "self-closing") =>
          (stack' = stack /\ errors' = errors /\ ~threw')]_vars
  /\ [](ErrorsAreOpenTokens)
  /\ []((Done /\ content = SelectExample) => allErrors = <<>>)

\* a self-closing token whose pair with the parent on top of the stack is in the
\* RuleIndex has just been processed
C4_Witness ==
  /\ pc = "check"
  /\ ti > 0
  /\ tokens[ti].type = "self-closing"
  /\ stack # <<>>
  /\ InCatalog(stack[Len(stack)].name, tokens[ti].name)
  /\ errors = <<>>

\* C5: a violation is emitted for an open token T exactly when the stack is not
\* empty and (name of the top frame, T.name) is a key of the RuleIndex, and its
\* parent is the top frame; no other token emits one; <a><span><a></a></span></a>
\* yields no violation.
C5_ImmediateParentOnly ==
  /\ [][AtToken =>
          IF /\ CurrentToken.type = "open"
             /\ stack # <<>>
             /\ InCatalog(stack[Len(stack)].name, CurrentToken.name)
          THEN /\ Len(errors') = Len(errors) + 1
               /\ SubSeq(errors', 1, Len(errors)) = errors
               /\ errors'[Len(errors')].parent = stack[Len(stack)].name
               /\ errors'[Len(errors')].child = CurrentToken.name
               /\ errors'[Len(errors')].offset = CurrentToken.offset
          ELSE errors' = errors]_vars
  /\ []((Done /\ content = AnchorExample) => allErrors = <<>>)

\* an open token has just been reported against the top frame although a deeper
\* frame is on the stack as well
C5_Witness ==
  /\ pc = "check"
  /\ ti > 0
  /\ tokens[ti].type = "open"
  /\ Len(stack) >= 3
  /\ errors # <<>>
  /\ errors[Len(errors)].offset = tokens[ti].offset
  /\ errors[Len(errors)].parent = stack[Len(stack) - 1].name
  /\ errors[Len(errors)].parent # stack[1].name

\* the tokenizer is at a tag: its while loop is about to process a match
AtMatch == pc = "tokenize" /\ CurrentMatch # Null

\* the match is a close tag / is named name
MatchIsClose == StartsWithAt(Region.text, CurrentMatch.index, <<"<", "/">>, FALSE)

MatchIsNamed(name) == MatchName(Region.text, CurrentMatch) = name

\* the document is <p><raw> inner </raw></p>, inner holding no </raw
IsRawTextDocument(raw) ==
  LET before == OpenTag("p") \o OpenTag(raw)
      after  == CloseTag(raw) \o CloseTag("p")
      inner  == Slice(content, Len(before), Len(content) - Len(after))
  IN  /\ Len(content) >= Len(before) + Len(after)
      /\ StartsWithAt(content, 0, before, FALSE)
      /\ EndsWith(content, after)
      /\ \A i \in 0..Len(inner) :
           ~StartsWithAt(inner, i, <<"<", "/">> \o NameChars[raw], TRUE)

\* C6: from a non-close tag named script, style or template until the first later
\* close tag of the same name the tokenizer emits no token: not for the opening tag,
\* not for a tag in between (an open tag of the same name and a close tag of another
\* name leave the skip state as it is), not for the close tag that ends it.  A
\* whole-text document <p><script>...</script></p> or <p><style>...</style></p>
\* yields no violation.
C6_RawTextSkipped ==
  /\ [][AtMatch =>
          IF skipUntil # NoSkip
          THEN /\ tokens' = tokens
               /\ skipUntil' = IF MatchIsClose /\ MatchIsNamed(skipUntil)
                               THEN NoSkip ELSE skipUntil
          ELSE \A raw \in {"script", "style", "template"} :
                 (~MatchIsClose /\ MatchIsNamed(raw)) =>
                   (tokens' = tokens /\ skipUntil' = raw)]_vars
  /\ []((Done /\ regions = WholeText(content)
              /\ (IsRawTextDocument("script") \/ IsRawTextDocument("style")))
          => allErrors = <<>>)

\* inside a script element the tokenizer has just passed a tag that would have been
\* an open tag, and the analysis of <p><script><div></script></p> ended
C6_Witness ==
  /\ Done
  /\ content = ScriptExample
  /\ regions = WholeText(content)
  /\ Len(tokens) = 2
  /\ allErrors = <<>>

\* C7: for every pair (P, C) of tag names with no rule in the catalog, analyze on
\* <P><C>text</C></P> returns no violation.
C7_NoRuleNoViolation ==
  (Done /\ IsPairDocumentWithText /\ ~InCatalog(PairParent, PairChild)) =>
    allErrors = <<>>

\* <div><p>text</p></div> has been analysed: both tags were open tokens
C7_Witness ==
  /\ Done
  /\ IsPairDocumentWithText
  /\ PairParent = "div"
  /\ PairChild = "p"
  /\ ~InCatalog(PairParent, PairChild)
  /\ Len(tokens) = 4
  /\ tokens[2].type = "open"
  /\ allErrors = <<>>

\* the tag at offset of text is written with a leading capital
IsComponentTag(text, offset) == At(text, offset + 1) \in Upper

\* C8: a tag written with a leading uppercase letter in the source is never the
\* child nor the parent of a reported violation.
C8_ComponentsIgnored ==
  [][(AtToken /\ Len(errors') > Len(errors)) =>
       /\ ~IsComponentTag(Region.text, CurrentToken.offset)
       /\ ~IsComponentTag(Region.text, stack[Len(stack)].offset)]_vars

\* where a template block can begin: "<template" in any case, a later >, and a later
\* "</template>" in any case
BlockStarts ==
  {i \in 0..Len(content) :
     /\ StartsWithAt(content, i, TemplateOpen, TRUE)
     /\ \E g \in (i + Len(TemplateOpen))..(Len(content) - 1) :
          /\ At(content, g) = ">"
          /\ \E c \in (g + 1)..Len(content) : StartsWithAt(content, c, TemplateClose, TRUE)}

HasTemplateBlock == BlockStarts # {}

\* the first block's inner text runs from InnerStart (right after the > of its opening
\* tag) up to, and not including, InnerEnd (where the first closing tag after it begins)
BlockStart == CHOOSE i \in BlockStarts : \A j \in BlockStarts : i <= j

InnerStart == FirstAt(content, ">", BlockStart + Len(TemplateOpen)) + 1

InnerEnd ==
  CHOOSE c \in InnerStart..Len(content) :
    /\ StartsWithAt(content, c, TemplateClose, TRUE)
    /\ \A d \in InnerStart..(c - 1) : ~StartsWithAt(content, d, TemplateClose, TRUE)

\* C9: for the template-wrapped dialect and a text that holds a template block, the
\* only region is the first block's inner text, with baseOffset the index right after
\* the > of its opening tag; every violation lies inside that inner text; and
\* <template><form><form></form></form></template> reports the nested form at
\* absoluteOffset = its offset in the inner text + that baseOffset.
C9_TemplateRegion ==
  /\ (languageId \in TemplateDialects /\ pc # "start" /\ HasTemplateBlock) =>
       /\ regions = <<[text |-> Slice(content, InnerStart, InnerEnd),
                       baseOffset |-> InnerStart]>>
       /\ At(content, InnerStart - 1) = ">"
       /\ \A k \in DOMAIN allErrors :
            /\ InnerStart <= allErrors[k].absoluteOffset
            /\ allErrors[k].absoluteOffset + allErrors[k].length <= InnerEnd
  /\ (Done /\ languageId \in TemplateDialects /\ content = TemplateExample) =>
       /\ Len(allErrors) = 1
       /\ allErrors[1].parent = "form"
       /\ allErrors[1].child = "form"
       /\ allErrors[1].offset = Len(OpenTag("form"))
       /\ allErrors[1].absoluteOffset = Len(OpenTag("form")) + Len(OpenTag("template"))

\* a document with forbidden pairs before and after its template block has been
\* analysed: only the nested form inside the block is reported
C9_Witness ==
  /\ Done
  /\ languageId = "vue"
  /\ content = TemplateExampleOutside
  /\ HasTemplateBlock
  /\ BlockStart > 0
  /\ InnerEnd + Len(TemplateClose) < Len(content)
  /\ Len(allErrors) = 1
  /\ allErrors[1].child = "form"

\* C10: analyze never throws and returns a list of violations: no step raises an
\* exception, every loop index stays inside what it walks over, so that a step is
\* possible until the list is returned, and every element of the list is a violation
\* of a catalog rule at an offset of the document.
C10_NeverThrows ==
  /\ ~threw
  /\ pc \in {"start", "region", "tokenize", "check", "done"}
  /\ pc = "region" => ri \in 0..Len(regions)
  /\ pc \in {"tokenize", "check"} => ri \in 0..(Len(regions) - 1)
  /\ pc = "tokenize" => lastIndex \in 0..Len(Region.text)
  /\ pc = "check" => ti \in 0..Len(tokens)
  /\ \A k \in DOMAIN allErrors :
       /\ DOMAIN allErrors[k] =
            {"parent", "child", "offset", "length", "rule", "absoluteOffset"}
       /\ InCatalog(allErrors[k].parent, allErrors[k].child)
       /\ allErrors[k].rule = RULES_MAP[RuleKey(allErrors[k].parent, allErrors[k].child)]
       /\ allErrors[k].absoluteOffset \in 0..(Len(content) - 1)
       /\ allErrors[k].length \in 1..Len(content)

\* <div><span></div> has been analysed, and so has a document whose first tag is a
\* close tag
C10_Witness ==
  /\ Done
  /\ ~threw
  /\ \/ content = UnbalancedExample
     \/ /\ tokens # <<>>
        /\ tokens[1].type = "close"
        /\ \E n \in DOMAIN tokens : tokens[n].type = "open"

\* the violations that analyzeDocument has taken over from the checker's result are
\* those found in the regions before the current one
FoundIn(v, region) ==
  /\ v.absoluteOffset = v.offset + region.baseOffset
  /\ v.offset + v.length <= Len(region.text)
  /\ At(region.text, v.offset) = "<"
  /\ LowerName(Slice(region.text, v.offset + 1, v.offset + 1 + Len(NameChars[v.child])))
       = v.child

\* the list that the running call has returned is the value of analyzeDocument, the
\* function, at its arguments
ReturnsAnalyzeDocument == Done => allErrors = analyzeDocument(content, languageId)

\* C11: when analyzeDocument takes over the checker's result for a region, it appends
\* one violation per error of the checker, in order, with parent, child, offset,
\* length and rule unchanged and absoluteOffset = offset + the region's baseOffset;
\* so every violation of the list stands, at its local offset, in a region whose
\* baseOffset is the difference of its two offsets.
C11_AbsoluteOffset ==
  /\ [][allErrors' # allErrors =>
          /\ pc = "check"
          /\ Len(allErrors') = Len(allErrors) + Len(errors)
          /\ SubSeq(allErrors', 1, Len(allErrors)) = allErrors
          /\ \A k \in DOMAIN errors :
               LET v == allErrors'[Len(allErrors) + k]
                   e == errors[k]
               IN  /\ v.parent = e.parent
                   /\ v.child = e.child
                   /\ v.offset = e.offset
                   /\ v.length = e.length
                   /\ v.rule = e.rule
                   /\ v.absoluteOffset = e.offset + Region.baseOffset]_vars
  /\ [](\A k \in DOMAIN allErrors :
          \E r \in 1..Len(regions) : r <= ri /\ FoundIn(allErrors[k], regions[r]))

\* a violation found in a region that does not begin at the start of the document
\* has been returned
C11_Witness ==
  /\ Done
  /\ allErrors # <<>>
  /\ \E r \in DOMAIN regions :
       /\ regions[r].baseOffset > 0
       /\ FoundIn(allErrors[1], regions[r])
  /\ allErrors[1].absoluteOffset > allErrors[1].offset

\* the calls that returned before the running one and were given what it was given
SameInputBefore ==
  {r \in returned : r.content = content /\ r.languageId = languageId}

\* C12: a call of analyzeDocument returns the list that every earlier call with the
\* same text and dialect returned, in the same order, whatever was analysed before
\* or in between; and every call begins its list empty, every tag scan begins at
\* position 0 outside skip state with no token, and every nesting check begins with
\* an empty stack and no error, whatever the calls before left behind.
C12_Deterministic ==
  /\ [](Done => \A r \in SameInputBefore : r.result = allErrors)
  /\ [][/\ pc' = "start" => allErrors' = <<>>
        /\ (pc # "tokenize" /\ pc' = "tokenize") =>
             (lastIndex' = 0 /\ skipUntil' = NoSkip /\ tokens' = <<>>)
        /\ (pc # "check" /\ pc' = "check") =>
             (ti' = 0 /\ stack' = <<>> /\ errors' = <<>>)]_vars

\* a third call has returned what the first call returned for the same document,
\* after a second call on another document that left a stack, a skip state or
\* violations behind
C12_Witness ==
  /\ Done
  /\ calls = 3
  /\ allErrors # <<>>
  /\ SameInputBefore # {}
  /\ \E r \in returned : r.content # content /\ r.result # allErrors

\* the `return (` scan from position from strictly advances: its match, if any, is
\* not empty, begins at or after from and ends inside the text
ReturnScanAdvances(from) ==
  LET match == ReturnExec(content, from)
  IN  match # Null =>
        /\ from <= match.index
        /\ match.index < match.end
        /\ match.end <= Len(content)

\* the parenthesis scan from position start ends at a position of the text that is
\* not before start
ParenScanAdvances(start) == ParenScan(content, start, 1) \in start..Len(content)

\* C13: analyzeDocument returns on every input: every iteration of the tag scan moves
\* the position forward inside the region's text, every iteration of the checker
\* takes the next token, every `return (` match and every parenthesis scan moves
\* forward inside the document, the search of the stack for a close token ends at a
\* frame of the stack or below it and only removes frames, and the call reaches its
\* return.
C13_Terminates ==
  /\ <>Done
  /\ [][/\ (pc = "tokenize" /\ pc' = "tokenize") =>
             (lastIndex < lastIndex' /\ lastIndex' <= Len(Region.text))
        /\ (pc = "check" /\ pc' = "check") => (ti' = ti + 1 /\ ti' <= Len(tokens))
        /\ (pc = "region" /\ pc' = "region") => FALSE
        /\ ri <= ri' /\ ri' <= Len(regions')
        /\ (AtToken /\ CurrentToken.type = "close") =>
             /\ NearestFrame(stack, CurrentToken.name, Len(stack)) \in 0..Len(stack)
             /\ Len(stack') <= Len(stack)
             /\ stack' = SubSeq(stack, 1, Len(stack'))]_vars
  /\ [](\A from \in 0..Len(content) :
          ReturnScanAdvances(from) /\ ParenScanAdvances(from))

\* a component-syntax document with a `return (` block whose parentheses are never
\* balanced and whose tags are never closed has been analysed to its end
C13_Witness ==
  /\ Done
  /\ languageId \in JsxDialects
  /\ ReturnExec(content, 0) # Null
  /\ ParenScan(content, ReturnExec(content, 0).end, 1) = Len(content)
  /\ Len(tokens) > 1
  /\ stack # <<>>

\* the word return begins at index i of the document, at a word boundary, and only
\* white space separates it from an opening parenthesis
ReturnPatternAt(i) ==
  /\ StartsWithAt(content, i, <<"r", "e", "t", "u", "r", "n">>, FALSE)
  /\ (i = 0 \/ At(content, i - 1) \notin WordChar)
  /\ \E j \in (i + 6)..(Len(content) - 1) :
       /\ At(content, j) = "("
       /\ \A k \in (i + 6)..(j - 1) : At(content, k) \in Space

HasReturnPattern == \E i \in 0..(Len(content) - 1) : ReturnPatternAt(i)

\* one region: the whole document at offset 0
IsWholeDocument(regs) == regs = <<[text |-> content, baseOffset |-> 0]>>

\* C14: the extracted region list is never empty, and it is the single region made
\* of the whole document at baseOffset 0 for html, html-angular and every dialect
\* that is not recognised, for the component-syntax dialects when the document holds
\* no `return (` pattern, and for the template-wrapped dialects when it holds no
\* template block.
C14_WholeDocumentRegion ==
  pc # "start" =>
    /\ regions # <<>>
    /\ languageId \notin (JsxDialects \cup TemplateDialects) => IsWholeDocument(regions)
    /\ (languageId \in JsxDialects /\ ~HasReturnPattern) => IsWholeDocument(regions)
    /\ (languageId \in TemplateDialects /\ ~HasTemplateBlock) => IsWholeDocument(regions)

\* a component-syntax document without `return (` and a template-wrapped document
\* without a template block, both with tags, have been analysed as a whole
C14_Witness ==
  /\ Done
  /\ tokens # <<>>
  /\ IsWholeDocument(regions)
  /\ \/ languageId \in JsxDialects /\ ~HasReturnPattern
     \/ languageId \in TemplateDialects /\ ~HasTemplateBlock /\ allErrors # <<>>

\* a tag occurs at index i of the document: <, an optional /, a letter, and a > later
TagAt(i) ==
  /\ At(content, i) = "<"
  /\ \E n \in {i + 1, i + 2} :
       /\ n < Len(content)
       /\ n = i + 2 => At(content, i + 1) = "/"
       /\ At(content, n) \in Letter
       /\ \E g \in (n + 1)..(Len(content) - 1) : At(content, g) = ">"

HasTag == \E i \in 0..(Len(content) - 1) : TagAt(i)

\* C15: for a document in which no tag occurs, under every dialect, the tag scan of
\* every region finds no match, no token is emitted and analyzeDocument returns the
\* empty list.
C15_NoTagNoViolation ==
  ~HasTag =>
    /\ tokens = <<>>
    /\ allErrors = <<>>
    /\ pc = "tokenize" => CurrentMatch = Null
    /\ Done => analyzeDocument(content, languageId) = <<>>

\* a document that holds < and letters but no tag has been analysed
C15_Witness ==
  /\ Done
  /\ ~HasTag
  /\ \E i \in 0..(Len(content) - 2) : At(content, i) = "<" /\ At(content, i + 1) \in Letter
  /\ allErrors = <<>>

\* both tags of a rule are elements of the catalog
RuleInCatalog(rule) == rule.parent \in HTML_TAGS_SET /\ rule.child \in HTML_TAGS_SET

\* every rule of the complete list, and every entry of the index under its own key
RulesInCatalog ==
  /\ \A i \in DOMAIN NESTING_RULES_COMPLETE : RuleInCatalog(NESTING_RULES_COMPLETE[i])
  /\ \A key \in DOMAIN RULES_MAP :
       /\ RuleInCatalog(RULES_MAP[key])
       /\ key = RuleKey(RULES_MAP[key].parent, RULES_MAP[key].child)

\* C16: every rule of the complete rule list, explicit or generated, and every entry
\* of RULES_MAP has its parent and its child in ALL_HTML_TAGS, so that every reported
\* violation names two elements of the catalog.
C16_RulesInCatalog ==
  /\ RulesInCatalog
  /\ \A k \in DOMAIN allErrors :
       /\ RuleInCatalog(allErrors[k].rule)
       /\ allErrors[k].parent \in HTML_TAGS_SET
       /\ allErrors[k].child \in HTML_TAGS_SET

\* <p> with a child outside the catalog, for which neither list holds a rule, has
\* been analysed without a violation
C16_Witness ==
  /\ Done
  /\ IsPairDocument
  /\ PairParent = "p"
  /\ PairChild \notin HTML_TAGS_SET
  /\ \A i \in DOMAIN NESTING_RULES_COMPLETE : NESTING_RULES_COMPLETE[i].child # PairChild
  /\ allErrors = <<>>

\* the permitted direct children the generator is given, by parent
PermittedChildren ==
  [parent \in {"html", "head", "table", "colgroup", "thead", "tbody", "tfoot", "tr",
               "ul", "ol", "menu", "dl", "select", "optgroup", "picture", "p",
               "summary", "dt", "legend", "h1", "h2", "h3", "h4", "h5", "h6"} |->
     CASE parent = "html" -> {"head", "body"}
       [] parent = "head" ->
            {"base", "link", "meta", "noscript", "script", "style", "template", "title"}
       [] parent = "table" ->
            {"caption", "colgroup", "thead", "tbody", "tfoot", "tr", "script", "template"}
       [] parent = "colgroup" -> {"col", "template"}
       [] parent \in {"thead", "tbody", "tfoot"} -> {"tr", "script", "template"}
       [] parent = "tr" -> {"td", "th", "script", "template"}
       [] parent \in {"ul", "ol", "menu"} -> {"li", "script", "template"}
       [] parent = "dl" -> {"dt", "dd", "script", "template"}
       [] parent = "select" -> {"option", "optgroup", "hr", "script", "template"}
       [] parent = "optgroup" -> {"option", "script", "template"}
       [] parent = "picture" -> {"source", "img", "script", "template"}
       [] OTHER -> PHRASING_CONTENT_TAGS]

\* the generated list holds a rule for (parent, child)
HasGeneratedRule(parent, child) ==
  \E i \in DOMAIN GENERATED_NESTING_RULES :
    /\ GENERATED_NESTING_RULES[i].parent = parent
    /\ GENERATED_NESTING_RULES[i].child = child

\* the document is <P><c></c></P> for a parent with a permitted set and a catalog tag
IsPermittedSetDocument ==
  /\ IsPairDocument
  /\ PairParent \in DOMAIN PermittedChildren
  /\ PairChild \in HTML_TAGS_SET

\* C17: for each parent P that the generator gives a set of permitted direct children
\* and every catalog tag c (each pair is the document <P><c></c></P> of one call), a
\* generated rule (P, c) exists if and only if c is not permitted, so that (table,
\* tr), (ul, li) and (select, option) have none; the call returns no violation when
\* c is permitted, and reports c when it is not permitted and is tokenized as an
\* open tag.
C17_GeneratedIffNotPermitted ==
  /\ (pc = "start" /\ IsPermittedSetDocument) =>
       /\ HasGeneratedRule(PairParent, PairChild)
            <=> PairChild \notin PermittedChildren[PairParent]
       /\ <<PairParent, PairChild>> \in
            {<<"table", "tr">>, <<"ul", "li">>, <<"select", "option">>} =>
              ~HasGeneratedRule(PairParent, PairChild)
  /\ (Done /\ IsPermittedSetDocument) =>
       /\ PairChild \in PermittedChildren[PairParent] => allErrors = <<>>
       /\ PairChild \notin (PermittedChildren[PairParent] \cup NeverOpen) =>
            (Len(allErrors) = 1 /\ allErrors[1].child = PairChild)

\* <table><tr></tr></table> has been analysed without a violation
C17_Witness ==
  /\ Done
  /\ IsPairDocument
  /\ PairParent = "table"
  /\ PairChild = "tr"
  /\ PairChild \in PermittedChildren[PairParent]
  /\ allErrors = <<>>

\* C18: when the steps of two analyzeDocument calls on different documents are
\* interleaved in any way, each call returns the list that analyzeDocument returns
\* for its document and dialect when it runs alone, and no step of one call changes
\* an argument or a local of the other.
C18_InterleavingSafe ==
  /\ [](Done => allErrors = analyzeDocument(content, languageId))
  /\ []((other # NoCall /\ other.pc = "done") =>
          other.allErrors = analyzeDocument(other.content, other.languageId))
  /\ [][(other # NoCall /\ other' # other) => (other' = SavedLocals /\ locals' = 
          <<other.content, other.languageId, other.pc, other.regions, other.ri,
            other.lastIndex, other.skipUntil, other.tokens, other.ti, other.stack,
            other.errors, other.allErrors, other.threw>>)]_vars

\* one call is in the middle of its nesting check, with an error found, while the
\* other, on another document, is suspended in the middle of its tag scan
C18_Witness ==
  /\ other # NoCall
  /\ pc = "check"
  /\ ti > 0
  /\ errors # <<>>
  /\ other.pc = "tokenize"
  /\ other.tokens # <<>>
  /\ other.lastIndex > 0
  /\ other.content # content

\* C19: every validateDocument call, whichever path of the extension makes it
\* (activation for the active editor and for the open documents, an opened document,
\* an expired debounce timer), is made while htmlNestingLinter.enable is true and for
\* a document whose language is in SUPPORTED_LANGUAGES; so that nothing is validated
\* or published while the setting is false.
C19_DisabledMeansSilent ==
  \A v \in validations : v.enabled /\ v.languageId \in SUPPORTED_LANGUAGES

\* the positions (1 = bottom) of the frames named name on the stack
FramesNamed(name) == {k \in 1..Len(stack) : stack[k].name = name}

\* C20: on a close token named X, findNestingErrors removes the frame named X that
\* is nearest to the top together with every frame above it and leaves the frames
\* below it as they are; when no frame is named X the stack stays as it is; and the
\* errors stay as they are.
C20_CloseToken ==
  [][(AtToken /\ CurrentToken.type = "close") =>
       /\ errors' = errors
       /\ ~threw'
       /\ IF FramesNamed(CurrentToken.name) = {}
          THEN stack' = stack
          ELSE LET nearest == CHOOSE k \in FramesNamed(CurrentToken.name) :
                                 \A j \in FramesNamed(CurrentToken.name) : j <= k
               IN  /\ Len(stack') = nearest - 1
                   /\ \A k \in 1..(nearest - 1) : stack'[k] = stack[k]]_vars

\* a close token has just removed the inner one of two frames of its name and left
\* the outer one, or has found no frame of its name on a stack that holds frames
C20_Witness ==
  /\ pc = "check"
  /\ ti > 1
  /\ tokens[ti].type = "close"
  /\ stack # <<>>
  /\ \/ /\ stack[Len(stack)].name = tokens[ti].name
        /\ \E n \in 1..(ti - 1) :
             tokens[n].type = "open" /\ tokens[n].name # tokens[ti].name
     \/ \A n \in 1..(ti - 1) : tokens[n].name # tokens[ti].name

\* <p><div><p>
PDivP == Concat(<<PDiv, OpenTag("p")>>)

\* C21: every open token pushes exactly one frame {name, offset} for itself, whether
\* or not a violation was emitted for it, so a reported child becomes the parent
\* context of what follows; in <p><div><p> the second <p> is checked against div.
C21_OpenTokenPushesFrame ==
  /\ [][(AtToken /\ CurrentToken.type = "open") =>
          /\ Len(stack') = Len(stack) + 1
          /\ SubSeq(stack', 1, Len(stack)) = stack
          /\ stack'[Len(stack')] =
               [name |-> CurrentToken.name, offset |-> CurrentToken.offset]]_vars
  /\ []((AtToken /\ content = PDivP /\ languageId \in PlainDialects /\ ti = 2) =>
          /\ CurrentToken.name = "p"
          /\ stack[Len(stack)].name = "div"
          /\ Len(errors) = 1)

\* the open token after a reported child has just been processed: the reported
\* child was on top of the stack when it was looked up, and it was pushed too
C21_Witness ==
  /\ pc = "check"
  /\ ti >= 3
  /\ tokens[ti].type = "open"
  /\ tokens[ti - 1].type = "open"
  /\ errors # <<>>
  /\ errors[Len(errors)].offset = tokens[ti - 1].offset
  /\ Len(stack) >= 3
  /\ stack[Len(stack)].offset = tokens[ti].offset
  /\ stack[Len(stack) - 1].offset = tokens[ti - 1].offset

\* the token tokenizeTags has just pushed, and the text it was cut from
LastToken == tokens[Len(tokens)]

TokenText(token) == Slice(Region.text, token.offset, token.offset + token.length)

\* the lowercased run of name characters after the < or </ of a tag text
TagTextName(tag) ==
  LET nameStart == IF At(tag, 1) = "/" THEN 2 ELSE 1
  IN  LowerName(Slice(tag, nameStart, SkipClass(tag, nameStart, NameChar)))

\* C22: outside skip state a match that begins with </ is classified close, even if
\* its name is a void element or it ends with />; otherwise it is self-closing if it
\* ends with /> or its lowercased name is a void element; otherwise it is open. Each
\* emitted token carries the lowercased name, the start index of the match as offset
\* and the length of the whole match.
C22_TokenClassification ==
  [][(AtMatch /\ skipUntil = NoSkip /\ Len(tokens') = Len(tokens) + 1) =>
       LET token == tokens'[Len(tokens')]
           tag   == TokenText(token)
       IN  /\ SubSeq(tokens', 1, Len(tokens)) = tokens
           /\ token.offset = CurrentMatch.index
           /\ token.length = CurrentMatch.end - CurrentMatch.index
           /\ At(tag, 0) = "<"
           /\ At(tag, token.length - 1) = ">"
           /\ IndexOf(tag, ">", 0) = token.length - 1
           /\ token.name = TagTextName(tag)
           /\ token.type =
                IF At(tag, 1) = "/" THEN "close"
                ELSE IF At(tag, token.length - 2) = "/" \/ token.name \in VOID_ELEMENTS
                     THEN "self-closing"
                     ELSE "open"]_vars

\* a match that begins with </, ends with /> and names a void element or not, has
\* just been pushed as a close token, after a void element written in capitals
C22_Witness ==
  /\ pc = "tokenize"
  /\ content = CloseVoidExample
  /\ Len(tokens) = 3
  /\ tokens[2] = [type |-> "close", name |-> "br", offset |-> 5, length |-> 5]
  /\ tokens[3] = [type |-> "close", name |-> "p", offset |-> 10, length |-> 5]

\* the index after the `return (` pattern that begins at index i: past the opening
\* parenthesis and the white space that follows it
PatternEnd(i) ==
  LET paren == FirstAt(content, "(", i + 6)
  IN  CHOOSE e \in (paren + 1)..Len(content) :
        /\ \A k \in (paren + 1)..(e - 1) : At(content, k) \in Space
        /\ e = Len(content) \/ At(content, e) \notin Space

\* the `return (` occurrences that are followed somewhere by a <
ReturnBlocks ==
  {i \in 0..(Len(content) - 1) :
     /\ ReturnPatternAt(i)
     /\ \E l \in PatternEnd(i)..(Len(content) - 1) : At(content, l) = "<"}

\* the k-th of them in document order
NthBlock(k) ==
  CHOOSE i \in ReturnBlocks : Cardinality({j \in ReturnBlocks : j < i}) = k - 1

\* the number of parentheses open before index j, counted from index e with the
\* parenthesis of the return open
Depth(e, j) ==
  1 + Cardinality({k \in e..(j - 1) : At(content, k) = "("})
    - Cardinality({k \in e..(j - 1) : At(content, k) = ")"})

\* the indexes of the ) that balances the parenthesis of the return: none or one
BalancingParen(e) ==
  {j \in e..(Len(content) - 1) :
     /\ Depth(e, j + 1) = 0
     /\ \A k \in e..j : Depth(e, k) > 0}

\* C23: in a component-syntax document each `return (` occurrence followed somewhere
\* by a < yields one region, in order of occurrence: its text is the slice of the
\* document from the first < after the pattern up to, and not including, the ) that
\* balances the parenthesis of the return, and its baseOffset is the index of that <.
C23_ReturnRegions ==
  (pc = "region" /\ ri = 0 /\ languageId \in JsxDialects /\ ReturnBlocks # {}) =>
    /\ Len(regions) = Cardinality(ReturnBlocks)
    /\ \A k \in 1..Len(regions) :
         LET e  == PatternEnd(NthBlock(k))
             lt == FirstAt(content, "<", e)
         IN  /\ regions[k].baseOffset = lt
             /\ \E close \in BalancingParen(e) :
                  regions[k].text = Slice(content, lt, close)

\* the debounced validation of document u is pending / has run
ValidationPending(u) == debounceTimer = [document |-> u, pending |-> TRUE]

ValidationRan(u) == debounceTimer = [document |-> u, pending |-> FALSE]

\* C24: for every supported document that receives a change event, a validation
\* against its latest text runs once the edits stop; a burst of changes triggers a
\* single validation; change events on other documents do not cancel a pending
\* validation of this one.
C24_DebouncedValidation ==
  /\ \A u \in Uris : ValidationPending(u) ~> ValidationRan(u)
  /\ [][\A u \in Uris :
          /\ (ValidationPending(u) /\ ~ValidationPending(u)') =>
               /\ ValidationRan(u)'
               /\ activated = "active" =>
                    diagnosticCollection'[u] = DiagnosticsOf(u, documents[u])
          /\ (ValidationRan(u) /\ documents' = documents) => validations' = validations
       ]_vars

\* C25: after a document is closed the diagnostic collection holds no diagnostics
\* for it until it is opened again; a debounced validation scheduled before the close
\* does not publish diagnostics for the closed document.
C25_ClosedMeansCleared ==
  activated = "active" =>
    \A u \in DOMAIN documents :
      documents[u].isClosed =>
        (u \notin DOMAIN diagnosticCollection \/ diagnosticCollection[u] = <<>>)

\* C26: each offending tag is reported at most once: no two violations of a result
\* have the same absoluteOffset, also for component-syntax documents with several or
\* nested `return (` blocks.
C26_ReportedOnce ==
  Done =>
    \A i, j \in DOMAIN allErrors :
      i # j => allErrors[i].absoluteOffset # allErrors[j].absoluteOffset

\* the text of a region is the part of the document that begins at its baseOffset
RegionInDocument(region) ==
  /\ 0 <= region.baseOffset
  /\ region.baseOffset + Len(region.text) <= Len(content)
  /\ region.text =
       Slice(content, region.baseOffset, region.baseOffset + Len(region.text))

\* the document holds, at the absolute offset of violation v and over its length,
\* one whole opening tag named as the child of v
TagInDocument(v) ==
  LET tag == Slice(content, v.absoluteOffset, v.absoluteOffset + v.length)
  IN  /\ 0 <= v.absoluteOffset
      /\ v.absoluteOffset + v.length <= Len(content)
      /\ At(content, v.absoluteOffset) = "<"
      /\ At(tag, 1) # "/"
      /\ IndexOf(tag, ">", 0) = v.length - 1
      /\ TagTextName(tag) = v.child

\* C27: every violation reported on a document lies inside it: its absoluteOffset is
\* not negative, absoluteOffset + length is at most the length of the document, the
\* character at absoluteOffset is <, and the characters over that length are the
\* matched text of the tag; every region's text is the part of the document that
\* begins at its baseOffset.
C27_OffsetsInDocument ==
  /\ pc # "start" => \A k \in DOMAIN regions : RegionInDocument(regions[k])
  /\ \A k \in DOMAIN allErrors : TagInDocument(allErrors[k])

\* a violation has been returned for a region that begins inside the document and
\* ends before its end
C27_Witness ==
  /\ Done
  /\ allErrors # <<>>
  /\ \E k \in DOMAIN regions :
       /\ regions[k].baseOffset > 0
       /\ regions[k].baseOffset + Len(regions[k].text) < Len(content)
       /\ \E n \in DOMAIN allErrors :
            /\ allErrors[n].absoluteOffset = allErrors[n].offset + regions[k].baseOffset
            /\ allErrors[n].offset > 0

\* the names the claim lists: the void elements and the raw-text elements
VoidNames ==
  {"area", "base", "br", "col", "embed", "hr", "img", "input", "link", "meta",
   "param", "source", "track", "wbr"}

RawTextNames == {"script", "style", "template"}

\* C28: no reported violation has a void element or a raw-text element (script,
\* style, template) as its child or as its parent, whatever the input: none is ever
\* an open token or a frame; so the catalog rules whose child is such an element
\* (a/input, button/input, p/hr, html/script) never fire.
C28_NeverOpenNeverReported ==
  /\ \A k \in DOMAIN tokens :
       tokens[k].type = "open" => tokens[k].name \notin VoidNames \cup RawTextNames
  /\ \A k \in DOMAIN stack : stack[k].name \notin VoidNames \cup RawTextNames
  /\ \A k \in DOMAIN errors :
       /\ errors[k].child \notin VoidNames \cup RawTextNames
       /\ errors[k].parent \notin VoidNames \cup RawTextNames
  /\ \A k \in DOMAIN allErrors :
       /\ allErrors[k].child \notin VoidNames \cup RawTextNames
       /\ allErrors[k].parent \notin VoidNames \cup RawTextNames
  /\ (Done /\ content = NeverOpenExample /\ languageId \in PlainDialects) =>
       allErrors = <<>>

\* the four pairs of the claim are keys of the RuleIndex, and the document that
\* holds each of them as a parent with its child has been analysed without a report
C28_Witness ==
  /\ Done
  /\ content = NeverOpenExample
  /\ languageId \in PlainDialects
  /\ InCatalog("a", "input")
  /\ InCatalog("button", "input")
  /\ InCatalog("p", "hr")
  /\ InCatalog("html", "script")
  /\ Len(tokens) = 11
  /\ allErrors = <<>>

\* the offsets of a list of errors are strictly increasing
IncreasingOffsets(errs) ==
  \A i, j \in DOMAIN errs : i < j => errs[i].offset < errs[j].offset

\* the violations of list all can be assigned to the regions regs so that the
\* region never goes back along the list, every violation has the baseOffset of its
\* region between its two offsets, and the local offsets increase inside a region
OrderedByRegion(all, regs) ==
  \E f \in [DOMAIN all -> DOMAIN regs] :
    /\ \A n \in DOMAIN all :
         all[n].absoluteOffset = all[n].offset + regs[f[n]].baseOffset
    /\ \A m, n \in DOMAIN all :
         m < n => (f[m] < f[n] \/ (f[m] = f[n] /\ all[m].offset < all[n].offset))

\* C29: the violation list is ordered: the violations of an earlier region precede
\* those of a later region, and within one region they are in strictly increasing
\* local offset.
C29_OrderedResult ==
  /\ [][/\ ri' \in {ri, ri + 1}
        /\ ri' = ri => allErrors' = allErrors
        /\ ri' = ri + 1 =>
             /\ Len(allErrors') = Len(allErrors) + Len(errors)
             /\ SubSeq(allErrors', 1, Len(allErrors)) = allErrors
             /\ \A n \in (Len(allErrors) + 1)..Len(allErrors') :
                  /\ allErrors'[n].absoluteOffset - allErrors'[n].offset
                       = regions[ri + 1].baseOffset
                  /\ allErrors'[n].offset = errors[n - Len(allErrors)].offset]_vars
  /\ [](/\ IncreasingOffsets(tokens)
        /\ IncreasingOffsets(errors)
        /\ (Done /\ allErrors # <<>>) => OrderedByRegion(allErrors, regions))

\* two regions have each yielded a violation, and the violation of the first region
\* stands first although its local offset is the greater one
C29_Witness ==
  /\ Done
  /\ Len(regions) = 2
  /\ Len(allErrors) = 2
  /\ allErrors[1].absoluteOffset - allErrors[1].offset = regions[1].baseOffset
  /\ allErrors[2].absoluteOffset - allErrors[2].offset = regions[2].baseOffset
  /\ regions[1].baseOffset # regions[2].baseOffset
  /\ allErrors[1].offset > allErrors[2].offset

\* the match is a script, style or template tag written in self-closing form
MatchIsSelfClosedRawText ==
  /\ ~MatchIsClose
  /\ MatchName(Region.text, CurrentMatch) \in RawTextNames
  /\ At(Region.text, CurrentMatch.end - 2) = "/"

\* C30: a script, style or template tag written in self-closing form does not put
\* the tokenizer into skip state: the tags that follow it in the region are still
\* tokenized and checked; in <p><script src="x" /><div> the <div> is reported.
C30_SelfClosedRawTextDoesNotSkip ==
  /\ [][(AtMatch /\ skipUntil = NoSkip /\ MatchIsSelfClosedRawText) =>
          skipUntil' = NoSkip]_vars
  /\ []((Done /\ content = SelfClosedScriptExample /\ languageId \in PlainDialects) =>
          /\ Len(allErrors) = 1
          /\ allErrors[1].child = "div")

=============================================================================
